---- MODULE Spec2Model ----
(***************************************************************************)
(* Model of scripts/upload_to_s3.py: the ingestion run (run-date check,    *)
(* directory scan, bucket check, plan, per-file probe / compress /         *)
(* transfer, _SUCCESS markers, summary and exit code) against an object    *)
(* store and a local temporary directory.                                  *)
(*                                                                         *)
(* Text that the program parses (file names, the run date) is a sequence   *)
(* of one-character strings; text that it only composes (object keys) is   *)
(* a string.                                                               *)
(***************************************************************************)
EXTENDS Integers, Sequences, FiniteSets, TLC

VARIABLES
    fs,                   \* local source directories: dir -> listing of *.jsonl files
    tmp,                  \* tempfile.gettempdir(): temp file name -> content
    store,                \* the bucket: object key -> object
    clock,                \* datetime.utcnow(), a logical clock
    cfg,                  \* per run: the command-line options of main
    pc,                   \* per run: position in main
    term,                 \* per run: how the process ended
    exit_code,            \* per run: process exit status, -1 while running
    s3_client,            \* per run: "unset", "None" or "client"
    file_metadata,        \* per run: the admitted files (scan_directory's result)
    source_table_groups,  \* per run: insertion-ordered dict (source, table) -> files
    idx,                  \* per run: position of the upload loop in file_metadata
    gidx,                 \* per run: position of the marker loop in source_table_groups
    uploaded_count,
    skipped_count,
    failed_count,
    outcome,              \* per run: per admitted file, what the console reported
    calls,                \* per run: the calls of upload_file and of the object store, in order
    store_at_start,       \* per run: the bucket as it was when the run began
    faults,               \* per run: how many more calls of the store or the disk may fail
    scan_console,         \* per run: what scan_directory printed, one entry per globbed file
    utcnow,               \* per run: what datetime.utcnow() returned when the run last read it
    mdp_raw_dev,          \* the bucket mdp-raw-dev, the asset's default raw bucket: object key -> object
    bronze                \* the downstream asset: what its latest materialization returned

vars == <<fs, tmp, store, clock, cfg, pc, term, exit_code, s3_client,
          file_metadata, source_table_groups, idx, gidx,
          uploaded_count, skipped_count, failed_count, outcome, calls,
          store_at_start, faults, scan_console, utcnow, mdp_raw_dev, bronze>>

\* The largest number of *.jsonl files in a source directory.
MaxFiles == 3

\* The largest number of calls of the store or the disk that fail in one run.
MaxFaults == 2

\* The invocations of the tool that are modelled.
Runs == {1, 2}

(***************************************************************************)
(* Text helpers                                                            *)
(***************************************************************************)
RECURSIVE Join(_)
Join(cs) == IF cs = <<>> THEN "" ELSE Head(cs) \o Join(Tail(cs))

\* TRUE iff pat occurs in s at position i.
MatchAt(s, i, pat) ==
    /\ i + Len(pat) - 1 <= Len(s)
    /\ \A k \in 1..Len(pat) : s[i + k - 1] = pat[k]

\* str.replace(pat, ''): every non-overlapping occurrence, left to right.
RECURSIVE RemoveAll(_, _)
RemoveAll(s, pat) ==
    IF s = <<>> THEN <<>>
    ELSE IF MatchAt(s, 1, pat) THEN RemoveAll(SubSeq(s, Len(pat) + 1, Len(s)), pat)
    ELSE <<Head(s)>> \o RemoveAll(Tail(s), pat)

\* str.split(ch, 1): at most one split, at the first occurrence of ch.
Split1(s, ch) ==
    IF \E i \in 1..Len(s) : s[i] = ch
    THEN LET i == CHOOSE j \in 1..Len(s) :
                     s[j] = ch /\ \A k \in 1..(j - 1) : s[k] # ch
         IN  <<SubSeq(s, 1, i - 1), SubSeq(s, i + 1, Len(s))>>
    ELSE <<s>>

\* [0-9]
AsciiDigits == {"0", "1", "2", "3", "4", "5", "6", "7", "8", "9"}

\* A character outside ASCII is written U+ and its code point in hexadecimal.
HexDigits == <<"0", "1", "2", "3", "4", "5", "6", "7", "8", "9", "A", "B", "C", "D", "E", "F">>

RECURSIVE Hex(_)
Hex(n) == IF n < 16 THEN HexDigits[n + 1] ELSE Hex(n \div 16) \o HexDigits[(n % 16) + 1]

Chr(cp) == "U+" \o (IF cp < 4096 THEN "0" ELSE "") \o Hex(cp)

\* The code points of the digits zero of Unicode (general category Nd) after
\* ASCII; the digits one to nine of a script follow its zero.
DecimalZeros ==
    { 1632, 1776, 1984, 2406, 2534, 2662, 2790, 2918, 3046, 3174,
      3302, 3430, 3558, 3664, 3792, 3872, 4160, 4240, 6112, 6160,
      6470, 6608, 6784, 6800, 6992, 7088, 7232, 7248, 42528, 43216,
      43264, 43472, 43504, 43600, 44016, 65296, 66720, 68912, 69734, 69872,
      69942, 70096, 70384, 70736, 70864, 71248, 71360, 71472, 71904, 72016,
      72784, 73040, 73120, 92768, 92864, 93008, 120782, 120792, 120802, 120812,
      120822, 123200, 123632, 125264, 130032 }

\* \d in a str pattern of the re module: every decimal digit of Unicode.
Digits == AsciiDigits \cup { Chr(z + k) : z \in DecimalZeros, k \in 0..9 }

\* int() of one decimal digit.
DigitVal(c) ==
    CASE c = "0" -> 0 [] c = "1" -> 1 [] c = "2" -> 2 [] c = "3" -> 3
      [] c = "4" -> 4 [] c = "5" -> 5 [] c = "6" -> 6 [] c = "7" -> 7
      [] c = "8" -> 8 [] c = "9" -> 9
      [] OTHER -> CHOOSE k \in 0..9 : \E z \in DecimalZeros : c = Chr(z + k)

RECURSIVE NumVal(_)
NumVal(cs) ==
    IF cs = <<>> THEN 0
    ELSE 10 * NumVal(SubSeq(cs, 1, Len(cs) - 1)) + DigitVal(cs[Len(cs)])

(***************************************************************************)
(* datetime.strptime(run_date, '%Y-%m-%d')                                 *)
(***************************************************************************)
IsLeap(y) == y % 4 = 0 /\ (y % 100 # 0 \/ y % 400 = 0)

DaysInMonth(y, m) ==
    IF m = 2 THEN (IF IsLeap(y) THEN 29 ELSE 28)
    ELSE IF m \in {4, 6, 9, 11} THEN 30 ELSE 31

\* %m is the pattern 1[0-2]|0[1-9]|[1-9]: the length matched at position i, 0 if none.
MonthLen(s, i) ==
    IF i + 1 <= Len(s) /\ s[i] = "1" /\ s[i + 1] \in {"0", "1", "2"} THEN 2
    ELSE IF i + 1 <= Len(s) /\ s[i] = "0" /\ s[i + 1] \in AsciiDigits \ {"0"} THEN 2
    ELSE IF i <= Len(s) /\ s[i] \in AsciiDigits \ {"0"} THEN 1
    ELSE 0

\* %d is the pattern 3[01]|[12]\d|0[1-9]|[1-9]| [1-9].
DayLen(s, i) ==
    IF i + 1 <= Len(s) /\ s[i] = "3" /\ s[i + 1] \in {"0", "1"} THEN 2
    ELSE IF i + 1 <= Len(s) /\ s[i] \in {"1", "2"} /\ s[i + 1] \in Digits THEN 2
    ELSE IF i + 1 <= Len(s) /\ s[i] = "0" /\ s[i + 1] \in AsciiDigits \ {"0"} THEN 2
    ELSE IF i <= Len(s) /\ s[i] \in AsciiDigits \ {"0"} THEN 1
    ELSE IF i + 1 <= Len(s) /\ s[i] = " " /\ s[i + 1] \in AsciiDigits \ {"0"} THEN 2
    ELSE 0

\* The month alternative that lets the rest of the pattern match: the one
\* followed by "-" (the regular expression backtracks over the alternatives).
MonthLenBefore(s, i) ==
    IF MonthLen(s, i) = 2 /\ i + 2 <= Len(s) /\ s[i + 2] = "-" THEN 2
    ELSE IF i <= Len(s) /\ s[i] \in AsciiDigits \ {"0"} /\ i + 1 <= Len(s) /\ s[i + 1] = "-" THEN 1
    ELSE 0

\* TRUE iff strptime returns, FALSE iff it raises ValueError.  %Y is the
\* pattern \d\d\d\d.
StrptimeYmd(s) ==
    /\ Len(s) >= 5
    /\ \A i \in 1..4 : s[i] \in Digits
    /\ s[5] = "-"
    /\ LET ml == MonthLenBefore(s, 6)
           dl == DayLen(s, 6 + ml + 1)
           y  == NumVal(SubSeq(s, 1, 4))
           m  == NumVal(SubSeq(s, 6, 5 + ml))
           ds == SubSeq(s, 6 + ml + 1, 6 + ml + dl)
           d  == NumVal(IF dl = 2 /\ ds[1] = " " THEN <<ds[2]>> ELSE ds)
       IN  /\ ml > 0
           /\ dl > 0
           /\ 6 + ml + dl = Len(s)          \* else "unconverted data remains"
           /\ y >= 1                        \* datetime.MINYEAR
           /\ d <= DaysInMonth(y, m)        \* else "day is out of range for month"

(***************************************************************************)
(* Name Parser and Structural Validator                                    *)
(***************************************************************************)
Chr_jsonl == <<".", "j", "s", "o", "n", "l">>

\* The dict source_mapping: the prefixes it has, and the value of each.
source_mapping_keys ==
    { <<"s", "t", "r", "i", "p", "e">>,
      <<"s", "f">>,
      <<"z", "e", "n", "d", "e", "s", "k">>,
      <<"h", "a", "r", "v", "e", "s", "t">>,
      <<"j", "i", "r", "a">>,
      <<"m", "i", "x", "p", "a", "n", "e", "l">>,
      <<"i", "n", "t", "a", "c", "c", "t">> }

source_mapping(prefix) ==
    IF prefix = <<"s", "f">>
    THEN <<"s", "a", "l", "e", "s", "f", "o", "r", "c", "e">>
    ELSE prefix

\* source_mapping.get(source_prefix, source_prefix)
source_mapping_get(prefix) ==
    IF prefix \in source_mapping_keys THEN source_mapping(prefix) ELSE prefix

\* ok = FALSE stands for the ValueError, whose message names the filename.
parse_filename(filename) ==
    LET name_without_ext == RemoveAll(filename, Chr_jsonl)
        parts == Split1(name_without_ext, "_")
    IN  IF Len(parts) # 2
        THEN [ok |-> FALSE, source |-> <<>>, table |-> <<>>,
              error |-> "Invalid filename format: " \o Join(filename)
                        \o ". Expected format: source_table.jsonl"]
        ELSE [ok |-> TRUE, source |-> source_mapping_get(parts[1]),
              table |-> parts[2], error |-> ""]

\* What a line of a file is to validate_jsonl: empty after strip(), a JSON
\* document, text on which json.loads raises JSONDecodeError ("bad"), text on
\* which json.loads raises another exception (ValueError for an integer of
\* more than 4300 digits, RecursionError: "raises"), a line with a byte that
\* is no UTF-8 ("undecodable"), a last line that ends inside a multi-byte
\* UTF-8 sequence ("cut": the file ends there).
LineKinds == {"blank", "json", "bad", "raises", "undecodable", "cut"}

\* The loop of validate_jsonl from line line_num on, line_count records so far.
\* A line on which json.loads raises another exception than JSONDecodeError,
\* and a last line whose read raises UnicodeDecodeError, end the loop in the
\* outer handler.
RECURSIVE validate_from(_, _, _)
validate_from(lines, line_num, line_count) ==
    IF line_num > Len(lines)
    THEN IF line_count = 0
         THEN [is_valid |-> FALSE, error_msg |-> <<"File is empty">>, line_count |-> 0]
         ELSE [is_valid |-> TRUE, error_msg |-> <<>>, line_count |-> line_count]
    ELSE IF lines[line_num] = "blank"
         THEN validate_from(lines, line_num + 1, line_count)
    ELSE IF lines[line_num] = "json"
         THEN validate_from(lines, line_num + 1, line_count + 1)
    ELSE IF lines[line_num] = "bad"
         THEN [is_valid |-> FALSE, error_msg |-> <<"Invalid JSON at line", line_num>>,
               line_count |-> line_count]
    ELSE [is_valid |-> FALSE, error_msg |-> <<"Error reading file">>, line_count |-> 0]

\* The files of the model are shorter than the 8192 bytes the text reader
\* decodes at a time: a byte that is no UTF-8 anywhere in the file makes the
\* read of the first line raise UnicodeDecodeError, which the outer handler
\* reports (as it reports a failing open()).  A sequence cut by the end of
\* the file is kept back by the decoder and raises only when the last line
\* is read, after the loop has looked at the lines before it.
validate_jsonl(lines) ==
    IF \E i \in 1..Len(lines) : lines[i] = "undecodable"
    THEN [is_valid |-> FALSE, error_msg |-> <<"Error reading file">>, line_count |-> 0]
    ELSE validate_from(lines, 1, 0)

(***************************************************************************)
(* Discovery Scanner                                                       *)
(***************************************************************************)
FileMetadata(local_path, source, table, size) ==
    [local_path |-> local_path, source |-> source, table |-> table, size |-> size]

\* Faulty variant: the first rejected file ends the scan.
RECURSIVE scan_from_stop(_, _, _)
scan_from_stop(dir, listing, i) ==
    IF i > Len(listing) THEN <<>>
    ELSE LET f == listing[i]
             parsed == parse_filename(f.name)
             checked == validate_jsonl(f.lines)
         IN  IF parsed.ok /\ checked.is_valid
             THEN <<FileMetadata([dir |-> dir, name |-> f.name],
                                 parsed.source, parsed.table, f.size)>>
                  \o scan_from_stop(dir, listing, i + 1)
             ELSE <<>>

\* The loop of scan_directory over the globbed files, from position i on.
RECURSIVE scan_from(_, _, _)
scan_from(dir, listing, i) ==
    IF i > Len(listing) THEN <<>>
    ELSE LET f == listing[i]
             parsed == parse_filename(f.name)
             checked == validate_jsonl(f.lines)
         IN  IF parsed.ok /\ checked.is_valid
             THEN <<FileMetadata([dir |-> dir, name |-> f.name],
                                 parsed.source, parsed.table, f.size)>>
                  \o scan_from(dir, listing, i + 1)
             ELSE scan_from(dir, listing, i + 1)

scan_directory(dir, listing) == scan_from(dir, listing, 1)

\* What the loop of scan_directory prints, file by file: a rejection with the
\* ValueError of parse_filename or the error_msg of validate_jsonl, or the
\* admission with the number of records.  Each entry also keeps the values
\* the loop held for the file: what parse_filename returned (parsed, empty
\* when it raised) and what validate_jsonl returned (checked, empty when it
\* was not called).
RECURSIVE report_from(_, _)
report_from(listing, i) ==
    IF i > Len(listing) THEN <<>>
    ELSE LET f == listing[i]
             parsed == parse_filename(f.name)
             checked == validate_jsonl(f.lines)
         IN  <<IF ~parsed.ok
               THEN [name |-> f.name, admitted |-> FALSE, text |-> <<parsed.error>>,
                     parsed |-> <<>>, checked |-> <<>>]
               ELSE IF ~checked.is_valid
               THEN [name |-> f.name, admitted |-> FALSE, text |-> checked.error_msg,
                     parsed |-> <<parsed.source, parsed.table>>, checked |-> <<checked>>]
               ELSE [name |-> f.name, admitted |-> TRUE,
                     text |-> <<checked.line_count, "records">>,
                     parsed |-> <<parsed.source, parsed.table>>, checked |-> <<checked>>]>>
             \o report_from(listing, i + 1)

scan_report(listing) == report_from(listing, 1)

(***************************************************************************)
(* Partition Path Builder                                                  *)
(***************************************************************************)
\* Faulty variant: the key carries the time of the call, so it differs between runs.
generate_s3_path_stamped(client, source, table, run_date, filename, compress) ==
    "clients/" \o client \o "/" \o source \o "/" \o table
        \o "/run_date=" \o run_date \o "/" \o ToString(clock) \o "-" \o filename
        \o (IF compress THEN ".gz" ELSE "")

\* Faulty variant: the key does not carry the file name, so the files of a
\* partition share one key.
generate_s3_path_nofile(client, source, table, run_date, filename, compress) ==
    "clients/" \o client \o "/" \o source \o "/" \o table
        \o "/run_date=" \o run_date \o "/data.jsonl"
        \o (IF compress THEN ".gz" ELSE "")

generate_s3_path(client, source, table, run_date, filename, compress) ==
    "clients/" \o client \o "/" \o source \o "/" \o table
        \o "/run_date=" \o run_date \o "/" \o filename
        \o (IF compress THEN ".gz" ELSE "")

generate_success_marker_path(client, source, table, run_date) ==
    "clients/" \o client \o "/" \o source \o "/" \o table
        \o "/run_date=" \o run_date \o "/_SUCCESS"

\* compress_file's compressed_path, inside the temporary directory.
compressed_path(local_path) == Join(local_path.name) \o ".gz"

(***************************************************************************)
(* Inputs: the files a source directory may hold, the option values        *)
(***************************************************************************)
Dirs == {"./data", "./other"}

\* Candidate directory entries matching *.jsonl: name, lines, st_size.  The
\* first is rejected (its second line is malformed) and is named into the
\* group of the last; the second and the third are of one group through the
\* alias sf.
Pool ==
    << [name  |-> <<"j", "i", "r", "a", "_", "b">> \o Chr_jsonl \o Chr_jsonl,
        lines |-> <<"json", "bad">>, size |-> 24],
       [name  |-> <<"s", "f", "_", "a">> \o Chr_jsonl,
        lines |-> <<"json">>, size |-> 20],
       [name  |-> <<"s", "a", "l", "e", "s", "f", "o", "r", "c", "e", "_", "a">> \o Chr_jsonl,
        lines |-> <<"json", "blank", "json">>, size |-> 41],
       [name  |-> <<"j", "i", "r", "a", "_", "b">> \o Chr_jsonl,
        lines |-> <<"json", "json">>, size |-> 40] >>

\* The entries of Pool at the positions in S, in Pool's order.
RECURSIVE PickUpTo(_, _)
PickUpTo(S, i) ==
    IF i = 0 THEN <<>>
    ELSE IF i \in S THEN Append(PickUpTo(S, i - 1), Pool[i])
    ELSE PickUpTo(S, i - 1)

\* The sequences that hold the elements of l, each once, in any order.
RECURSIVE Orders(_)
Orders(l) ==
    IF l = <<>> THEN {<<>>}
    ELSE UNION { { <<l[i]>> \o rest :
                     rest \in Orders(SubSeq(l, 1, i - 1) \o SubSeq(l, i + 1, Len(l))) } :
                 i \in 1..Len(l) }

\* What source_dir.glob('*.jsonl') may yield: at most MaxFiles entries, in
\* the order of the file system, which is any order.
Listings ==
    UNION { Orders(PickUpTo(S, Len(Pool))) :
              S \in { T \in SUBSET (1..Len(Pool)) : Cardinality(T) <= MaxFiles } }

\* Run dates: the default, one without zero padding, one that is no
\* calendar day, one whose last digit is ARABIC-INDIC DIGIT SEVEN.
RunDates ==
    { <<"2", "0", "2", "5", "-", "1", "2", "-", "1", "7">>,
      <<"2", "0", "2", "5", "-", "1", "-", "5">>,
      <<"2", "0", "2", "5", "-", "0", "2", "-", "3", "0">>,
      <<"2", "0", "2", "5", "-", "1", "2", "-", "1", Chr(1639)>> }

\* The click defaults of main's options (run date: the day of the run).
DefaultCfg ==
    [source_dir |-> "./data", bucket |-> "cda-raw-dev", client |-> "wise",
     run_date |-> <<"2", "0", "2", "5", "-", "1", "2", "-", "1", "7">>,
     dry_run |-> FALSE, force |-> FALSE, no_compress |-> FALSE]

\* The option values of a run: every combination of the flags with the
\* default run date, and every run date with and without --dry-run.
Configs ==
    { [DefaultCfg EXCEPT !.dry_run = dr, !.force = fo, !.no_compress = nc] :
        dr \in BOOLEAN, fo \in BOOLEAN, nc \in BOOLEAN }
    \cup { [DefaultCfg EXCEPT !.run_date = d, !.dry_run = dr] :
             d \in RunDates, dr \in BOOLEAN }

(***************************************************************************)
(* main: helpers                                                           *)
(***************************************************************************)
\* compress = not no_compress
compress(r) == ~cfg[r].no_compress

s3_key_of(c, fm) ==
    generate_s3_path(c.client, Join(fm.source), Join(fm.table), Join(c.run_date),
                     Join(fm.local_path.name), ~c.no_compress)

marker_path_of(c, key) ==
    generate_success_marker_path(c.client, Join(key[1]), Join(key[2]), Join(c.run_date))

\* Faulty variant: the membership test is lost, every file opens a group.
RECURSIVE group_files_nodedupe(_, _, _)
group_files_nodedupe(fms, i, groups) ==
    IF i > Len(fms) THEN groups
    ELSE group_files_nodedupe(fms, i + 1,
             Append(groups, [key |-> <<fms[i].source, fms[i].table>>, files |-> <<fms[i]>>]))

\* The grouping loop of main: a dict keeps insertion order.
RECURSIVE group_files(_, _, _)
group_files(fms, i, groups) ==
    IF i > Len(fms) THEN groups
    ELSE LET fm == fms[i]
             key == <<fm.source, fm.table>>
         IN  IF \E g \in 1..Len(groups) : groups[g].key = key
             THEN LET g == CHOOSE h \in 1..Len(groups) : groups[h].key = key
                  IN  group_files(fms, i + 1,
                          [groups EXCEPT ![g].files = Append(@, fm)])
             ELSE group_files(fms, i + 1,
                          Append(groups, [key |-> key, files |-> <<fm>>]))

\* open(local_path).read(): the content of the file at local_path.
ReadFile(local_path) ==
    LET listing == fs[local_path.dir]
        i == CHOOSE j \in 1..Len(listing) : listing[j].name = local_path.name
    IN  [dir |-> local_path.dir, name |-> local_path.name, lines |-> listing[i].lines]

\* The bytes of a whole GZIP stream of content.
Gzip(content) == [gzip |-> content, complete |-> TRUE]

\* An object that was in the bucket before any modelled run.
OldObject ==
    [Body |-> [dir |-> "elsewhere", name |-> <<"o", "l", "d">>, lines |-> <<"json">>],
     ServerSideEncryption |-> "AES256", ContentEncoding |-> "none",
     Metadata |-> [uploaded_at |-> 0, original_filename |-> "old"]]

Call(op, key, result, body) == [op |-> op, key |-> key, result |-> result, body |-> body]

sys_exit(r, code) ==
    /\ pc' = [pc EXCEPT ![r] = "Exit"]
    /\ exit_code' = [exit_code EXCEPT ![r] = code]
    /\ term' = [term EXCEPT ![r] = "sys.exit"]

\* main returns: click ends the process with status 0.
return_from_main(r) ==
    /\ pc' = [pc EXCEPT ![r] = "Exit"]
    /\ exit_code' = [exit_code EXCEPT ![r] = 0]
    /\ term' = [term EXCEPT ![r] = "return"]

\* An exception nobody catches: traceback, status 1.
uncaught(r) ==
    /\ pc' = [pc EXCEPT ![r] = "Exit"]
    /\ exit_code' = [exit_code EXCEPT ![r] = 1]
    /\ term' = [term EXCEPT ![r] = "uncaught"]

goto(r, label) ==
    /\ pc' = [pc EXCEPT ![r] = label]
    /\ UNCHANGED <<exit_code, term>>

\* A call of run r has been made: when it failed, one failure fewer is left.
called(r, failed) == faults' = [faults EXCEPT ![r] = IF failed THEN @ - 1 ELSE @]

\* Faulty variant: the upload loop stops one file early.
next_file_early(r) ==
    /\ idx' = [idx EXCEPT ![r] = @ + 1]
    /\ goto(r, IF idx[r] + 1 >= Len(file_metadata[r]) THEN "Marking" ELSE "Uploading")

\* Faulty variant: a file that was not uploaded is taken up again.
next_file_retry(r) ==
    IF outcome'[r][idx[r]] = "Uploaded"
    THEN /\ idx' = [idx EXCEPT ![r] = @ + 1]
         /\ goto(r, IF idx[r] + 1 > Len(file_metadata[r]) THEN "Marking" ELSE "Uploading")
    ELSE /\ idx' = idx
         /\ goto(r, "Uploading")

\* progress.update(task, advance=1) and the next iteration of the upload loop.
next_file(r) ==
    /\ idx' = [idx EXCEPT ![r] = @ + 1]
    /\ goto(r, IF idx[r] + 1 > Len(file_metadata[r]) THEN "Marking" ELSE "Uploading")

(***************************************************************************)
(* main, step by step                                                      *)
(***************************************************************************)
\* Init: datetime.strptime(run_date, '%Y-%m-%d'), sys.exit(1) on ValueError.
ValidateRunDate(r) ==
    /\ pc[r] = "Init"
    /\ IF StrptimeYmd(cfg[r].run_date) THEN goto(r, "Scanning") ELSE sys_exit(r, 1)
    /\ UNCHANGED <<mdp_raw_dev, utcnow, bronze, store_at_start, faults, scan_console, fs, tmp, store, clock, cfg, s3_client, file_metadata,
                   source_table_groups, idx, gidx, uploaded_count, skipped_count,
                   failed_count, outcome, calls>>

\* Faulty variant: an empty scan is not an exit but goes on to the bucket check.
ScanDirectory_noexit(r) ==
    /\ pc[r] = "Scanning"
    /\ LET found == scan_directory(cfg[r].source_dir, fs[cfg[r].source_dir])
       IN  /\ file_metadata' = [file_metadata EXCEPT ![r] = found]
           /\ outcome' = [outcome EXCEPT ![r] = [i \in 1..Len(found) |-> "none"]]
           /\ goto(r, "Connect")
    /\ scan_console' = [scan_console EXCEPT ![r] = scan_report(fs[cfg[r].source_dir])]
    /\ UNCHANGED <<mdp_raw_dev, utcnow, bronze, store_at_start, faults, fs, tmp, store, clock, cfg, s3_client, source_table_groups,
                   idx, gidx, uploaded_count, skipped_count, failed_count, calls>>

\* Scanning: scan_directory, sys.exit(0) when nothing was admitted.
ScanDirectory(r) ==
    /\ pc[r] = "Scanning"
    /\ LET found == scan_directory(cfg[r].source_dir, fs[cfg[r].source_dir])
       IN  /\ file_metadata' = [file_metadata EXCEPT ![r] = found]
           /\ outcome' = [outcome EXCEPT ![r] = [i \in 1..Len(found) |-> "none"]]
           /\ IF found = <<>> THEN sys_exit(r, 0) ELSE goto(r, "Connect")
    /\ scan_console' = [scan_console EXCEPT ![r] = scan_report(fs[cfg[r].source_dir])]
    /\ UNCHANGED <<mdp_raw_dev, utcnow, bronze, store_at_start, faults, fs, tmp, store, clock, cfg, s3_client, source_table_groups,
                   idx, gidx, uploaded_count, skipped_count, failed_count, calls>>

\* What boto3.client plus head_bucket can do: return, raise NoCredentialsError,
\* raise ClientError with a code, or raise another botocore error.
BucketResults(r) ==
    IF faults[r] > 0
    THEN {"ok", "NoCredentialsError", "404", "403", "500", "EndpointConnectionError"}
    ELSE {"ok"}

\* The client is created and the bucket checked, unless dry_run.
InitClient(r) ==
    /\ pc[r] = "Connect"
    /\ IF cfg[r].dry_run
       THEN /\ s3_client' = [s3_client EXCEPT ![r] = "None"]
            /\ goto(r, "PlanReview")
            /\ UNCHANGED <<calls, faults>>
       ELSE \E res \in BucketResults(r) :
            /\ s3_client' = [s3_client EXCEPT ![r] = "client"]
            /\ called(r, res # "ok")
            /\ calls' = [calls EXCEPT ![r] =
                            Append(@, Call("head_bucket", cfg[r].bucket, res, <<>>))]
            /\ IF res = "ok" THEN goto(r, "PlanReview")
               ELSE IF res \in {"NoCredentialsError", "404", "403", "500"}
                    THEN sys_exit(r, 1)
               ELSE uncaught(r)
    /\ UNCHANGED <<mdp_raw_dev, utcnow, bronze, store_at_start, scan_console, fs, tmp, store, clock, cfg, file_metadata, source_table_groups,
                   idx, gidx, uploaded_count, skipped_count, failed_count, outcome>>

\* Faulty variant: the return of a dry run is missing.
PlanReview_nodry(r) ==
    /\ pc[r] = "PlanReview"
    /\ source_table_groups' =
           [source_table_groups EXCEPT ![r] = group_files(file_metadata[r], 1, <<>>)]
    /\ goto(r, "Uploading")
    /\ idx' = [idx EXCEPT ![r] = 1]
    /\ uploaded_count' = [uploaded_count EXCEPT ![r] = 0]
    /\ skipped_count' = [skipped_count EXCEPT ![r] = 0]
    /\ failed_count' = [failed_count EXCEPT ![r] = 0]
    /\ UNCHANGED <<mdp_raw_dev, utcnow, bronze, store_at_start, faults, scan_console, fs, tmp, store, clock, cfg, s3_client, file_metadata,
                   gidx, outcome, calls>>

\* PlanReview: the groups, the plan table, and the return of a dry run.
PlanReview(r) ==
    /\ pc[r] = "PlanReview"
    /\ source_table_groups' =
           [source_table_groups EXCEPT ![r] = group_files(file_metadata[r], 1, <<>>)]
    /\ IF cfg[r].dry_run
       THEN return_from_main(r) /\ UNCHANGED <<idx, uploaded_count, skipped_count, failed_count>>
       ELSE /\ goto(r, "Uploading")
            /\ idx' = [idx EXCEPT ![r] = 1]
            /\ uploaded_count' = [uploaded_count EXCEPT ![r] = 0]
            /\ skipped_count' = [skipped_count EXCEPT ![r] = 0]
            /\ failed_count' = [failed_count EXCEPT ![r] = 0]
    /\ UNCHANGED <<mdp_raw_dev, utcnow, bronze, store_at_start, faults, scan_console, fs, tmp, store, clock, cfg, s3_client, file_metadata, gidx,
                   outcome, calls>>

\* head_object on a key: 200 when the object is there, 404 when it is not,
\* or a failure of the call.
ProbeResults(r, key) ==
    (IF key \in DOMAIN store THEN {"200"} ELSE {"404"})
        \cup (IF faults[r] > 0 THEN {"403", "EndpointConnectionError"} ELSE {})

\* Faulty variant: the answer of head_object is ignored, False is returned.
check_file_exists_never(res) ==
    IF res \in {"200", "404"} THEN "False" ELSE "raise"

\* Faulty variant: a key that head_object does not find is reported as existing.
check_file_exists_always(res) ==
    IF res \in {"200", "404"} THEN "True" ELSE "raise"

\* check_file_exists on the answer of head_object: True, False (ClientError
\* with code 404), or the exception raised again.
check_file_exists(res) ==
    IF res = "200" THEN "True" ELSE IF res = "404" THEN "False" ELSE "raise"

\* Uploading, force off: check_file_exists, then skip, go on to upload_file, or raise.
CheckFileExists(r) ==
    /\ pc[r] = "Uploading"
    /\ ~cfg[r].force
    /\ LET fm == file_metadata[r][idx[r]]
           s3_key == s3_key_of(cfg[r], fm)
       IN  \E res \in ProbeResults(r, s3_key) :
           /\ calls' = [calls EXCEPT ![r] = Append(@, Call("head_object", s3_key, res, <<>>))]
           /\ called(r, res \notin {"200", "404"})
           /\ IF check_file_exists(res) = "True"
              THEN /\ skipped_count' = [skipped_count EXCEPT ![r] = @ + 1]
                   /\ outcome' = [outcome EXCEPT ![r][idx[r]] = "Skipped-AlreadyExists"]
                   /\ next_file(r)
              ELSE IF check_file_exists(res) = "False"
              THEN /\ goto(r, "upload_file")
                   /\ UNCHANGED <<skipped_count, outcome, idx>>
              ELSE /\ uncaught(r)
                   /\ UNCHANGED <<skipped_count, outcome, idx>>
    /\ UNCHANGED <<mdp_raw_dev, utcnow, bronze, store_at_start, scan_console, fs, tmp, store, clock, cfg, s3_client, file_metadata,
                   source_table_groups, gidx, uploaded_count, failed_count>>

\* Faulty variant: force does not switch the existence check off.
ForceUpload_probe(r) ==
    /\ pc[r] = "Uploading"
    /\ cfg[r].force
    /\ IF s3_key_of(cfg[r], file_metadata[r][idx[r]]) \in DOMAIN store
       THEN /\ skipped_count' = [skipped_count EXCEPT ![r] = @ + 1]
            /\ outcome' = [outcome EXCEPT ![r][idx[r]] = "Skipped-AlreadyExists"]
            /\ next_file(r)
       ELSE /\ goto(r, "upload_file")
            /\ UNCHANGED <<skipped_count, outcome, idx>>
    /\ UNCHANGED <<mdp_raw_dev, utcnow, bronze, store_at_start, faults, scan_console, fs, tmp, store, clock, cfg, s3_client, file_metadata,
                   source_table_groups, gidx, uploaded_count, failed_count, calls>>

\* Uploading, force on: "not force" is false, no probe.
ForceUpload(r) ==
    /\ pc[r] = "Uploading"
    /\ cfg[r].force
    /\ goto(r, "upload_file")
    /\ UNCHANGED <<mdp_raw_dev, utcnow, bronze, store_at_start, faults, scan_console, fs, tmp, store, clock, cfg, s3_client, file_metadata,
                   source_table_groups, idx, gidx, uploaded_count, skipped_count,
                   failed_count, outcome, calls>>

\* What the two open calls of compress_file can do: return, or raise before
\* the temporary file exists (the source cannot be opened).
CompressResults(r) == IF faults[r] > 0 THEN {"ok", "open_error"} ELSE {"ok"}

\* What f_out.write(f_in.read()) and the two closes can do: return, or raise
\* with the temporary file on disk.
WriteResults(r) == IF faults[r] > 0 THEN {"ok", "write_error"} ELSE {"ok"}

\* The temporary file at path after gzip.open(path, 'wb') of run r: created, or
\* truncated when it was there, so it holds no byte (empty), and open for
\* writing by r next to the runs that had it open already.
Opened(r, path, content) ==
    [gzip |-> content, complete |-> FALSE, empty |-> TRUE,
     open_by |-> (IF path \in DOMAIN tmp THEN tmp[path].open_by ELSE {}) \cup {r}]

\* The temporary file f after run r, which has it open, wrote its stream from
\* offset 0 and closed it.  Over an empty file, and over bytes of a stream of
\* the same content, the result is r's stream.  Over bytes another run wrote
\* in the meantime (a whole stream, or the part a failed write left) the
\* result is r's stream when that is the longer one and r's stream followed
\* by the rest of the other bytes when not; the model has no lengths, so both
\* are possible.
Written(r, f, content) ==
    { [gzip |-> content, complete |-> c, empty |-> FALSE, open_by |-> f.open_by \ {r}] :
        c \in (IF ~f.empty /\ f.gzip # content THEN BOOLEAN ELSE {TRUE}) }

\* The temporary file f after the write of run r, which has it open, raised
\* and the file was closed: the bytes that reached the file before the error
\* lie over what it held.  They leave the file as it was when they are few
\* (none, or the first bytes of the header), else a part of r's stream,
\* followed by the rest of what the file held.
WriteFailed(r, f, content) ==
    { [f EXCEPT !.open_by = @ \ {r}],
      [gzip |-> content, complete |-> FALSE, empty |-> FALSE, open_by |-> f.open_by \ {r}] }

\* What the transfer reads from a temporary file: its bytes.
Bytes(f) == [gzip |-> f.gzip, complete |-> f.complete]

\* upload_file, first step: main's call, and in compress mode the two open
\* calls of compress_file.  gzip.open creates the temporary file, or truncates
\* the one that is there; the stream is written in the next step.  An
\* exception is caught by upload_file, which returns False; compressed_path
\* is not bound then, and the handler removes nothing.
CompressFile(r) ==
    /\ pc[r] = "upload_file"
    /\ LET fm == file_metadata[r][idx[r]]
           path == compressed_path(fm.local_path)
       IN  IF ~compress(r)
           THEN goto(r, "extra_args") /\ UNCHANGED <<tmp, failed_count, outcome, idx, faults>>
           ELSE \E res \in CompressResults(r) :
                /\ called(r, res # "ok")
                /\ IF res = "ok"
                   THEN /\ tmp' = [k \in DOMAIN tmp \cup {path} |->
                                      IF k = path THEN Opened(r, path, ReadFile(fm.local_path))
                                      ELSE tmp[k]]
                        /\ goto(r, "gzip_write")
                        /\ UNCHANGED <<failed_count, outcome, idx>>
                   ELSE /\ failed_count' = [failed_count EXCEPT ![r] = @ + 1]
                        /\ outcome' = [outcome EXCEPT ![r][idx[r]] = "Failed"]
                        /\ next_file(r)
                        /\ UNCHANGED tmp
    /\ calls' = [calls EXCEPT ![r] =
                    Append(@, Call("upload_file",
                                   s3_key_of(cfg[r], file_metadata[r][idx[r]]), "called", <<>>))]
    /\ UNCHANGED <<mdp_raw_dev, utcnow, bronze, store_at_start, scan_console, fs, store, clock, cfg, s3_client, file_metadata,
                   source_table_groups, gidx, uploaded_count, skipped_count>>

\* compress_file at f_out.write(f_in.read()) and the end of the with blocks.
\* The run writes to the file it opened: when that file has been removed from
\* the directory since (or removed and created again by another run), the
\* file at the path is not the one written.  When the write raises,
\* upload_file returns False; compressed_path is not bound and the handler
\* removes nothing.
CompressWrite(r) ==
    /\ pc[r] = "gzip_write"
    /\ LET fm == file_metadata[r][idx[r]]
           path == compressed_path(fm.local_path)
           held == path \in DOMAIN tmp /\ r \in tmp[path].open_by
       IN  \E res \in WriteResults(r) :
           /\ called(r, res # "ok")
           /\ IF held
              THEN \E f \in (IF res = "ok"
                             THEN Written(r, tmp[path], ReadFile(fm.local_path))
                             ELSE WriteFailed(r, tmp[path], ReadFile(fm.local_path))) :
                      tmp' = [tmp EXCEPT ![path] = f]
              ELSE tmp' = tmp
           /\ IF res = "ok"
              THEN /\ goto(r, "extra_args")
                   /\ UNCHANGED <<failed_count, outcome, idx>>
              ELSE /\ failed_count' = [failed_count EXCEPT ![r] = @ + 1]
                   /\ outcome' = [outcome EXCEPT ![r][idx[r]] = "Failed"]
                   /\ next_file(r)
    /\ UNCHANGED <<mdp_raw_dev, utcnow, bronze, store_at_start, scan_console, fs, store, clock, cfg, s3_client, file_metadata,
                   source_table_groups, gidx, uploaded_count, skipped_count, calls>>

\* upload_file building extra_args: datetime.utcnow() is read here, before
\* the transfer is called.
ExtraArgs(r) ==
    /\ pc[r] = "extra_args"
    /\ utcnow' = [utcnow EXCEPT ![r] = clock]
    /\ goto(r, "transfer")
    /\ UNCHANGED <<mdp_raw_dev, bronze, store_at_start, faults, scan_console, fs, tmp, store, clock, cfg, s3_client,
                   file_metadata, source_table_groups, idx, gidx, uploaded_count,
                   skipped_count, failed_count, outcome, calls>>

TransferResults(r) == IF faults[r] > 0 THEN {"ok", "error"} ELSE {"ok"}

\* upload_file at s3_client.upload_file: the transfer.  When it raises (also
\* because the temporary file is not there to be read), upload_file goes on
\* in its handler.
Transfer(r) ==
    /\ pc[r] = "transfer"
    /\ LET fm == file_metadata[r][idx[r]]
           s3_key == s3_key_of(cfg[r], fm)
           path == compressed_path(fm.local_path)
           readable == ~compress(r) \/ path \in DOMAIN tmp
           body == IF compress(r) THEN Bytes(tmp[path]) ELSE ReadFile(fm.local_path)
       IN  \E res \in (IF readable THEN TransferResults(r) ELSE {"error"}) :
           /\ calls' = [calls EXCEPT ![r] =
                           Append(@, Call("s3.upload_file", s3_key, res,
                                          IF readable THEN body ELSE <<>>))]
           /\ IF res = "ok"
              THEN /\ store' = [k \in DOMAIN store \cup {s3_key} |->
                                  IF k = s3_key
                                  THEN [Body |-> body,
                                        ServerSideEncryption |-> "AES256",
                                        ContentEncoding |-> IF compress(r) THEN "gzip" ELSE "none",
                                        Metadata |-> [uploaded_at |-> utcnow[r],
                                                      original_filename |-> Join(fm.local_path.name)]]
                                  ELSE store[k]]
                   /\ goto(r, "cleanup")
              ELSE /\ goto(r, "except")
                   /\ UNCHANGED store
           /\ called(r, readable /\ res = "error")
           /\ clock' = clock + 1
    /\ UNCHANGED <<mdp_raw_dev, utcnow, bronze, store_at_start, scan_console, fs, tmp, cfg, s3_client, file_metadata,
                   source_table_groups, idx, gidx, uploaded_count, skipped_count,
                   failed_count, outcome>>

\* upload_file after the transfer: compressed_path.unlink() and return True,
\* which main counts as Uploaded.  When the temporary file is no longer there
\* unlink raises and upload_file goes on in its handler.
Cleanup(r) ==
    /\ pc[r] = "cleanup"
    /\ LET path == compressed_path(file_metadata[r][idx[r]].local_path)
       IN  IF ~compress(r) \/ path \in DOMAIN tmp
           THEN /\ tmp' = IF compress(r) THEN [k \in DOMAIN tmp \ {path} |-> tmp[k]] ELSE tmp
                /\ uploaded_count' = [uploaded_count EXCEPT ![r] = @ + 1]
                /\ outcome' = [outcome EXCEPT ![r][idx[r]] = "Uploaded"]
                /\ next_file(r)
           ELSE /\ goto(r, "except")
                /\ UNCHANGED <<tmp, uploaded_count, outcome, idx>>
    /\ UNCHANGED <<mdp_raw_dev, utcnow, bronze, store_at_start, faults, scan_console, fs, store, clock, cfg, s3_client,
                   file_metadata, source_table_groups, gidx, skipped_count, failed_count, calls>>

\* upload_file in its handler, compressed_path bound (the exception came from
\* the transfer or from the unlink after it): the error is printed, the
\* temporary file is removed when it is there (an exception of this unlink
\* is swallowed), upload_file returns False and main counts a failure.
ExceptHandler(r) ==
    /\ pc[r] = "except"
    /\ LET path == compressed_path(file_metadata[r][idx[r]].local_path)
       IN  tmp' = IF compress(r) THEN [k \in DOMAIN tmp \ {path} |-> tmp[k]] ELSE tmp
    /\ failed_count' = [failed_count EXCEPT ![r] = @ + 1]
    /\ outcome' = [outcome EXCEPT ![r][idx[r]] = "Failed"]
    /\ next_file(r)
    /\ UNCHANGED <<mdp_raw_dev, utcnow, bronze, store_at_start, faults, scan_console, fs, store, clock, cfg, s3_client,
                   file_metadata, source_table_groups, gidx, uploaded_count, skipped_count, calls>>

\* Faulty variant: a failed marker write ends the run with status 1.
marker_loop_next_abort(r, ok) ==
    IF ok
    THEN /\ gidx' = [gidx EXCEPT ![r] = @ + 1]
         /\ goto(r, IF gidx[r] + 1 > Len(source_table_groups[r]) THEN "Summary" ELSE "Marking")
    ELSE /\ sys_exit(r, 1)
         /\ UNCHANGED gidx

\* The marker loop after upload_success_marker returned ok: the message is
\* printed when it is True, and the loop goes on either way.
marker_loop_next(r, ok) ==
    /\ gidx' = [gidx EXCEPT ![r] = @ + 1]
    /\ goto(r, IF gidx[r] + 1 > Len(source_table_groups[r]) THEN "Summary" ELSE "Marking")

\* Faulty variant: the marker counts only the files of the group that did not fail.
UploadSuccessMarker_successes(r) ==
    /\ pc[r] = "put_object"
    /\ LET g == source_table_groups[r][gidx[r]]
           marker_path == marker_path_of(cfg[r], g.key)
           marker_content == [uploaded_at |-> utcnow[r], file_count |->
                                  Cardinality({ i \in 1..Len(file_metadata[r]) :
                                      /\ <<file_metadata[r][i].source,
                                            file_metadata[r][i].table>> = g.key
                                      /\ outcome[r][i] # "Failed" }),
                              status |-> "complete"]
       IN  \E res \in TransferResults(r) :
           /\ calls' = [calls EXCEPT ![r] =
                           Append(@, Call("put_object", marker_path, res, marker_content))]
           /\ store' = IF res = "ok"
                       THEN [k \in DOMAIN store \cup {marker_path} |->
                                IF k = marker_path
                                THEN [Body |-> marker_content,
                                      ServerSideEncryption |-> "AES256",
                                      ContentType |-> "application/json"]
                                ELSE store[k]]
                       ELSE store
           /\ marker_loop_next(r, res = "ok")
           /\ called(r, res = "error")
    /\ clock' = clock + 1
    /\ UNCHANGED <<mdp_raw_dev, utcnow, bronze, store_at_start, scan_console, fs, tmp, cfg, s3_client, file_metadata, source_table_groups, idx,
                   uploaded_count, skipped_count, failed_count, outcome>>

\* Marking: upload_success_marker for the next group of source_table_groups
\* builds marker_content: datetime.utcnow() is read here, before put_object
\* is called.
MarkerContent(r) ==
    /\ pc[r] = "Marking"
    /\ utcnow' = [utcnow EXCEPT ![r] = clock]
    /\ goto(r, "put_object")
    /\ UNCHANGED <<mdp_raw_dev, bronze, store_at_start, faults, scan_console, fs, tmp, store, clock, cfg, s3_client,
                   file_metadata, source_table_groups, idx, gidx, uploaded_count,
                   skipped_count, failed_count, outcome, calls>>

\* upload_success_marker at s3_client.put_object: the marker is written with
\* the content built before the call; an exception is caught and False is
\* returned.
UploadSuccessMarker(r) ==
    /\ pc[r] = "put_object"
    /\ LET g == source_table_groups[r][gidx[r]]
           marker_path == marker_path_of(cfg[r], g.key)
           marker_content == [uploaded_at |-> utcnow[r], file_count |-> Len(g.files),
                              status |-> "complete"]
       IN  \E res \in TransferResults(r) :
           /\ calls' = [calls EXCEPT ![r] =
                           Append(@, Call("put_object", marker_path, res, marker_content))]
           /\ store' = IF res = "ok"
                       THEN [k \in DOMAIN store \cup {marker_path} |->
                                IF k = marker_path
                                THEN [Body |-> marker_content,
                                      ServerSideEncryption |-> "AES256",
                                      ContentType |-> "application/json"]
                                ELSE store[k]]
                       ELSE store
           /\ marker_loop_next(r, res = "ok")
           /\ called(r, res = "error")
    /\ clock' = clock + 1
    /\ UNCHANGED <<mdp_raw_dev, utcnow, bronze, store_at_start, scan_console, fs, tmp, cfg, s3_client, file_metadata, source_table_groups, idx,
                   uploaded_count, skipped_count, failed_count, outcome>>

\* Faulty variant: a run that only skipped files ends with status 1 too.
Summary_allskipped(r) ==
    /\ pc[r] = "Summary"
    /\ IF failed_count[r] > 0 \/ (uploaded_count[r] = 0 /\ skipped_count[r] > 0)
       THEN sys_exit(r, 1)
       ELSE return_from_main(r)
    /\ UNCHANGED <<mdp_raw_dev, utcnow, bronze, store_at_start, faults, scan_console, fs, tmp, store, clock, cfg, s3_client, file_metadata,
                   source_table_groups, idx, gidx, uploaded_count, skipped_count,
                   failed_count, outcome, calls>>

\* Summary: sys.exit(1) when a file failed, else main returns.
Summary(r) ==
    /\ pc[r] = "Summary"
    /\ IF failed_count[r] > 0 THEN sys_exit(r, 1) ELSE return_from_main(r)
    /\ UNCHANGED <<mdp_raw_dev, utcnow, bronze, store_at_start, faults, scan_console, fs, tmp, store, clock, cfg, s3_client, file_metadata,
                   source_table_groups, idx, gidx, uploaded_count, skipped_count,
                   failed_count, outcome, calls>>

(***************************************************************************)
(* One invocation of the tool on a source directory                        *)
(***************************************************************************)
\* The downstream asset has not been materialized.
NotMaterialized ==
    [materialized |-> FALSE, client_name |-> "", files_validated |-> 0,
     raw_bucket |-> "", bronze_bucket |-> "", raw_files |-> {}, promoted |-> {}]

\* The keys of the data objects the run with options c writes for a listing.
DataKeys(c, listing) ==
    LET found == scan_directory(c.source_dir, listing)
    IN  { s3_key_of(c, found[i]) : i \in 1..Len(found) }

InitRun(c, listing, pre, fl) ==
    /\ faults = [r \in Runs |-> IF r = 1 THEN fl ELSE MaxFaults]
    /\ fs = [d \in Dirs |-> IF d = c.source_dir THEN listing ELSE <<>>]
    /\ tmp = <<>>
    /\ store = [k \in pre |-> OldObject]
    /\ clock = 1
    /\ utcnow = [r \in Runs |-> 0]
    /\ mdp_raw_dev = <<>>
    /\ cfg = [r \in Runs |-> IF r = 1 THEN c ELSE DefaultCfg]
    /\ pc = [r \in Runs |-> IF r = 1 THEN "Init" ELSE "Idle"]
    /\ term = [r \in Runs |-> "running"]
    /\ exit_code = [r \in Runs |-> -1]
    /\ s3_client = [r \in Runs |-> "unset"]
    /\ file_metadata = [r \in Runs |-> <<>>]
    /\ source_table_groups = [r \in Runs |-> <<>>]
    /\ idx = [r \in Runs |-> 0]
    /\ gidx = [r \in Runs |-> 1]
    /\ uploaded_count = [r \in Runs |-> 0]
    /\ skipped_count = [r \in Runs |-> 0]
    /\ failed_count = [r \in Runs |-> 0]
    /\ outcome = [r \in Runs |-> <<>>]
    /\ calls = [r \in Runs |-> <<>>]
    /\ store_at_start = [r \in Runs |-> store]
    /\ scan_console = [r \in Runs |-> <<>>]
    /\ bronze = NotMaterialized

\* The directories a run with options c is started on: any listing for the
\* default run date, the listings of at most one file for the other dates.
ListingsFor(c) ==
    IF c.run_date = DefaultCfg.run_date THEN Listings
    ELSE { l \in Listings : Len(l) <= 1 }

Init ==
    \E c \in Configs :
        \E listing \in ListingsFor(c) :
            \E pre \in SUBSET DataKeys(c, listing) : InitRun(c, listing, pre, MaxFaults)

Step(r) ==
    \/ ValidateRunDate(r)
    \/ ScanDirectory(r)
    \/ InitClient(r)
    \/ PlanReview(r)
    \/ CheckFileExists(r)
    \/ ForceUpload(r)
    \/ CompressFile(r)
    \/ CompressWrite(r)
    \/ ExtraArgs(r)
    \/ Transfer(r)
    \/ Cleanup(r)
    \/ ExceptHandler(r)
    \/ MarkerContent(r)
    \/ UploadSuccessMarker(r)
    \/ Summary(r)

Next == \E r \in Runs : Step(r)

Spec == Init /\ [][Next]_vars

(***************************************************************************)
(* The scan of one file: file names and contents drawn from bounded sets   *)
(***************************************************************************)
\* The largest number of lines of a file whose content is enumerated.
MaxLines == 3

\* File names matching *.jsonl: mapped and unmapped prefixes, more than one
\* delimiter, upper-case letters, no delimiter, the extension inside the name.
SampleNames ==
    { <<"s", "f", "_", "a", "c", "c", "o", "u", "n", "t", "s">> \o Chr_jsonl,
      <<"u", "n", "k", "n", "o", "w", "n", "p", "r", "e", "f", "i", "x", "_", "w", "i", "d", "g", "e", "t", "s">> \o Chr_jsonl,
      <<"s", "t", "r", "i", "p", "e", "_", "a", "_", "b">> \o Chr_jsonl,
      <<"U", "n", "k", "n", "o", "w", "n", "_", "W", "i", "d", "g", "e", "t", "s">> \o Chr_jsonl,
      <<"S", "F", "_", "a", "c", "c", "o", "u", "n", "t", "s">> \o Chr_jsonl,
      <<"n", "o", "d", "e", "l", "i", "m">> \o Chr_jsonl,
      <<"a", ".", "j", "s", "o", "n", "l", "_", "b">> \o Chr_jsonl }

\* Every content of at most n lines; only the last line can be cut by the end
\* of the file.
RECURSIVE LineSeqs(_)
LineSeqs(n) ==
    IF n = 0 THEN {<<>>}
    ELSE LineSeqs(n - 1)
            \cup { Append(ls, k) :
                     ls \in { l \in LineSeqs(n - 1) :
                                Len(l) = n - 1 /\ \A i \in 1..Len(l) : l[i] # "cut" },
                     k \in LineKinds }

\* The run is started on a directory that holds one such file.
InitScan ==
    \E name \in SampleNames, lines \in LineSeqs(MaxLines), fo \in BOOLEAN :
        InitRun([DefaultCfg EXCEPT !.force = fo],
                <<[name |-> name, lines |-> lines, size |-> 10 * Len(lines)]>>, {},
                MaxFaults)

SpecScan == InitScan /\ [][Next]_vars

(***************************************************************************)
(* A rerun: the tool is invoked again after the earlier invocation ended   *)
(***************************************************************************)
\* The options of the invocations of a rerun scenario: the date is valid.
RerunConfigs ==
    { [DefaultCfg EXCEPT !.force = fo, !.no_compress = nc] :
        fo \in BOOLEAN, nc \in BOOLEAN }

\* main is entered again with options c, once every other invocation has ended.
StartRerun(r) ==
    /\ pc[r] = "Idle"
    /\ \A q \in Runs \ {r} : pc[q] = "Exit"
    /\ \E c \in RerunConfigs : cfg' = [cfg EXCEPT ![r] = c]
    /\ pc' = [pc EXCEPT ![r] = "Init"]
    /\ store_at_start' = [store_at_start EXCEPT ![r] = store]
    /\ UNCHANGED <<mdp_raw_dev, utcnow, bronze, faults, scan_console, fs, tmp, store, clock, term, exit_code, s3_client,
                   file_metadata, source_table_groups, idx, gidx, uploaded_count,
                   skipped_count, failed_count, outcome, calls>>

\* The first invocation starts on an empty bucket, in a directory whose files
\* are all admitted, and meets no failure of the store or the disk.
InitRerun ==
    \E c \in RerunConfigs :
        \E listing \in { l \in Listings : Len(scan_directory(c.source_dir, l)) = Len(l) } :
            InitRun(c, listing, {}, 0)

NextRerun ==
    \/ \E r \in Runs : Step(r)
    \/ \E r \in Runs : StartRerun(r)

SpecRerun == InitRerun /\ [][NextRerun]_vars

(***************************************************************************)
(* Two invocations at the same time, against one bucket and one temporary  *)
(* directory.  No call of the store or the disk fails of itself: whatever  *)
(* goes wrong in these runs comes from the interleaving.                   *)
(***************************************************************************)
\* The largest number of files in a source directory of the concurrent runs.
MaxConcurrentFiles == 1

Clients == {"wise", "acme"}

\* What a source directory of the concurrent runs may hold: admitted files
\* of the table a, in any order.  The two directories may hold files of the
\* same name; the content of a file is told apart by its directory.
ConcurrentListings ==
    { l \in Listings :
        /\ Len(l) \in 1..MaxConcurrentFiles
        /\ Len(scan_directory("./data", l)) = Len(l)
        /\ \A i \in 1..Len(l) : parse_filename(l[i].name).table = <<"a">> }

\* The options of the two invocations: the second may work on the other
\* directory.
ConcurrentConfigs ==
    { <<[DefaultCfg EXCEPT !.force = fo, !.no_compress = nc],
        [DefaultCfg EXCEPT !.force = fo, !.no_compress = nc, !.source_dir = d]>> :
        fo \in BOOLEAN, nc \in BOOLEAN, d \in Dirs }

InitConcurrent ==
    \E cs \in ConcurrentConfigs :
        /\ faults = [r \in Runs |-> 0]
        /\ \E ls \in [Dirs -> ConcurrentListings] :
               fs = [d \in Dirs |->
                        IF \E r \in Runs : cs[r].source_dir = d THEN ls[d] ELSE <<>>]
        /\ tmp = <<>>
        /\ store = <<>>
        /\ clock = 1
        /\ utcnow = [r \in Runs |-> 0]
        /\ mdp_raw_dev = <<>>
        /\ cfg = [r \in Runs |-> cs[r]]
        /\ pc = [r \in Runs |-> "Init"]
        /\ term = [r \in Runs |-> "running"]
        /\ exit_code = [r \in Runs |-> -1]
        /\ s3_client = [r \in Runs |-> "unset"]
        /\ file_metadata = [r \in Runs |-> <<>>]
        /\ source_table_groups = [r \in Runs |-> <<>>]
        /\ idx = [r \in Runs |-> 0]
        /\ gidx = [r \in Runs |-> 1]
        /\ uploaded_count = [r \in Runs |-> 0]
        /\ skipped_count = [r \in Runs |-> 0]
        /\ failed_count = [r \in Runs |-> 0]
        /\ outcome = [r \in Runs |-> <<>>]
        /\ calls = [r \in Runs |-> <<>>]
        /\ store_at_start = [r \in Runs |-> store]
        /\ scan_console = [r \in Runs |-> <<>>]
        /\ bronze = NotMaterialized

SpecConcurrent == InitConcurrent /\ [][Next]_vars

(***************************************************************************)
(* The downstream asset and its resource (src/dagster/caritas_cda).  The    *)
(* asset lists its raw bucket under the client's prefix and counts what it  *)
(* promotes; the orchestrator materializes it at any moment, with the       *)
(* op_config of the launch, whose missing entries take the defaults.  The   *)
(* resource's upload_file writes a local file to a bucket.                  *)
(***************************************************************************)
\* The largest number of objects in the buckets that were written through
\* S3Resource.upload_file.
MaxResourceUploads == 1

\* str.endswith and str.startswith
endswith(s, suffix) ==
    /\ Len(s) >= Len(suffix)
    /\ SubSeq(s, Len(s) - Len(suffix) + 1, Len(s)) = suffix

startswith(s, prefix) ==
    /\ Len(s) >= Len(prefix)
    /\ SubSeq(s, 1, Len(prefix)) = prefix

\* The buckets of the model: the one the tool writes to and the default of
\* the asset's op_config raw_bucket.
Buckets == {DefaultCfg.bucket, "mdp-raw-dev"}

\* The objects of a bucket.
Objects(bucket) == IF bucket = DefaultCfg.bucket THEN store ELSE mdp_raw_dev

\* S3Resource.list_objects: the keys of the 'Contents' of list_objects_v2,
\* one page of at most 1000 keys, which the buckets of the model never reach.
list_objects(bucket, prefix) == { key \in DOMAIN bucket : startswith(key, prefix) }

\* The keys the loop of bronze_data_validation counts.
promoted_of(raw_files) ==
    { key \in raw_files : ~(endswith(key, "/") \/ endswith(key, "_SUCCESS")) }

\* The value bronze_data_validation returns, with the listing it read and
\* the keys it counted.
bronze_data_validation(bucket, client_name, raw_bucket) ==
    LET raw_prefix == "clients/" \o client_name \o "/"
        raw_files == list_objects(bucket, raw_prefix)
        promoted == promoted_of(raw_files)
    IN  [materialized |-> TRUE,
         client_name |-> client_name,
         files_validated |-> Cardinality(promoted),
         raw_bucket |-> raw_bucket,
         bronze_bucket |-> "mdp-bronze-dev",
         raw_files |-> raw_files,
         promoted |-> promoted]

\* A materialization of the asset: op_config gives client_name and
\* raw_bucket, or leaves them to the defaults "acme" and "mdp-raw-dev".
BronzeDataValidation ==
    /\ \E client_name \in Clients, raw_bucket \in Buckets :
           bronze' = bronze_data_validation(Objects(raw_bucket), client_name, raw_bucket)
    /\ UNCHANGED <<mdp_raw_dev, utcnow, fs, tmp, store, clock, cfg, pc, term, exit_code, s3_client,
                   file_metadata, source_table_groups, idx, gidx,
                   uploaded_count, skipped_count, failed_count, outcome, calls,
                   store_at_start, faults, scan_console>>

\* The local files S3Resource.upload_file is called with: the files of the
\* source directories.
LocalFiles ==
    UNION { { [dir |-> d, name |-> fs[d][i].name] : i \in 1..Len(fs[d]) } : d \in Dirs }

\* The keys S3Resource.upload_file is called with: a key that is in the
\* bucket, or a new key under a client's prefix.
ResourceKeys(bucket) ==
    DOMAIN Objects(bucket)
        \cup { "clients/" \o cl \o "/salesforce/a/run_date=2025-12-17/late.jsonl" : cl \in Clients }

\* The objects that were written through S3Resource.upload_file: the call
\* passes no ExtraArgs, so they have a body and nothing else.
ResourceObjects(bucket) ==
    { key \in DOMAIN Objects(bucket) : DOMAIN Objects(bucket)[key] = {"Body"} }

\* S3Resource.upload_file(file_path, bucket, key): the file is stored at the
\* key, in place of the object that was there.
S3ResourceUploadFile ==
    /\ Cardinality(ResourceObjects(DefaultCfg.bucket))
           + Cardinality(ResourceObjects("mdp-raw-dev")) < MaxResourceUploads
    /\ \E file_path \in LocalFiles, bucket \in Buckets :
           \E key \in ResourceKeys(bucket) :
               LET objects == [k \in DOMAIN Objects(bucket) \cup {key} |->
                                  IF k = key THEN [Body |-> ReadFile(file_path)]
                                  ELSE Objects(bucket)[k]]
               IN  IF bucket = DefaultCfg.bucket
                   THEN store' = objects /\ UNCHANGED mdp_raw_dev
                   ELSE mdp_raw_dev' = objects /\ UNCHANGED store
    /\ UNCHANGED <<utcnow, bronze, fs, tmp, clock, cfg, pc, term, exit_code, s3_client,
                   file_metadata, source_table_groups, idx, gidx,
                   uploaded_count, skipped_count, failed_count, outcome, calls,
                   store_at_start, faults, scan_console>>

\* The largest number of files in the source directory of the invocation
\* that runs next to the asset.
MaxBronzeFiles == 2

\* One invocation of the tool, with or without --force, for either client,
\* on an empty bucket; calls of the store or the disk may fail.
InitBronze ==
    \E cl \in Clients, fo \in BOOLEAN :
        \E listing \in { l \in Listings : Len(l) <= MaxBronzeFiles } :
            InitRun([DefaultCfg EXCEPT !.client = cl, !.force = fo], listing, {}, MaxFaults)

NextBronze ==
    \/ \E r \in Runs : Step(r)
    \/ BronzeDataValidation
    \/ S3ResourceUploadFile

SpecBronze == InitBronze /\ [][NextBronze]_vars

(***************************************************************************)
(* Vocabulary of the properties                                            *)
(***************************************************************************)
Files(r) == 1..Len(file_metadata[r])

FileKey(r, i) == s3_key_of(cfg[r], file_metadata[r][i])

GroupOf(r, i) == <<file_metadata[r][i].source, file_metadata[r][i].table>>

GroupKeys(r) == { GroupOf(r, i) : i \in Files(r) }

FilesOf(r, gk) == { i \in Files(r) : GroupOf(r, i) = gk }

WithOutcome(r, o) == { i \in Files(r) : outcome[r][i] = o }

Outcomes == {"Uploaded", "Skipped-AlreadyExists", "Failed"}

CallsOf(r, ops) == { j \in 1..Len(calls[r]) : calls[r][j].op \in ops }

CallsOn(r, ops, key) == { j \in CallsOf(r, ops) : calls[r][j].key = key }

MarkerCalls(r) == CallsOf(r, {"put_object"})

\* Calls that concern one data file: its probe, upload_file, the transfer.
FileOps == {"head_object", "upload_file", "s3.upload_file"}

\* The run is not a dry run and its upload loop has gone through every file.
UploadingDone(r) ==
    /\ ~cfg[r].dry_run
    /\ file_metadata[r] # <<>>
    /\ idx[r] > Len(file_metadata[r])

\* The run went through Summary and ended.
ExitedAfterSummary(r) == pc[r] = "Exit" /\ UploadingDone(r)

\* The strict form YYYY-MM-DD of a calendar date.
IsYYYYMMDD(s) ==
    /\ Len(s) = 10
    /\ \A i \in {1, 2, 3, 4, 6, 7, 9, 10} : s[i] \in AsciiDigits
    /\ s[5] = "-" /\ s[8] = "-"
    /\ StrptimeYmd(s)

(***************************************************************************)
(* C1: a group's _SUCCESS marker is written only after every admitted file *)
(* of the group has its outcome; no probe, upload_file call or transfer of *)
(* a file of the group follows the group's marker write.                   *)
(***************************************************************************)
C1_MarkerAfterGroupOutcomes ==
    \A r \in Runs : MarkerCalls(r) # {} =>
        \A i \in Files(r) :
            LET marker == marker_path_of(cfg[r], GroupOf(r, i))
                key == FileKey(r, i)
            IN  \A j \in MarkerCalls(r) :
                    marker = calls[r][j].key =>
                        /\ outcome[r][i] \in Outcomes
                        /\ \A k \in CallsOn(r, FileOps, key) : k < j

C1_Witness ==
    \E r \in Runs :
        /\ Cardinality(MarkerCalls(r)) = 2
        /\ \A o \in Outcomes : WithOutcome(r, o) # {}

(***************************************************************************)
(* C2: a run that went through its N admitted files, in G groups, issues   *)
(* exactly G marker writes by the time it reaches Summary, one at each     *)
(* group's marker key, each with file_count = the group's number of        *)
(* admitted files and status "complete".                                   *)
(***************************************************************************)
C2_MarkerCompleteness ==
    \A r \in Runs :
        (UploadingDone(r) /\ pc[r] \in {"Summary", "Exit"}) =>
            /\ Cardinality(MarkerCalls(r)) = Cardinality(GroupKeys(r))
            /\ \A gk \in GroupKeys(r) :
                   LET marker == marker_path_of(cfg[r], gk)
                   IN  \E j \in MarkerCalls(r) :
                           /\ calls[r][j].key = marker
                           /\ calls[r][j].body.file_count = Cardinality(FilesOf(r, gk))
                           /\ calls[r][j].body.status = "complete"
                           /\ CallsOn(r, {"put_object"}, marker) = {j}

C2_Witness ==
    \E r \in Runs :
        /\ ExitedAfterSummary(r)
        /\ Len(file_metadata[r]) = 3
        /\ Cardinality(GroupKeys(r)) = 2
        /\ { calls[r][j].body.file_count : j \in MarkerCalls(r) } = {1, 2}

(***************************************************************************)
(* C3: force off and the probe of a file's key answers that the object     *)
(* exists: no upload_file call and no transfer for that file, outcome      *)
(* Skipped-AlreadyExists counted in skipped_count and not in failed_count, *)
(* the stored object as it was, and the loop moves past the file.          *)
(***************************************************************************)
C3_SkipWithoutForce ==
    \A r \in Runs : \A i \in Files(r) :
        LET key == FileKey(r, i)
        IN  (/\ ~cfg[r].force
             /\ \E j \in CallsOn(r, {"head_object"}, key) : calls[r][j].result = "200") =>
                /\ CallsOn(r, {"upload_file", "s3.upload_file"}, key) = {}
                /\ outcome[r][i] = "Skipped-AlreadyExists"
                /\ skipped_count[r] = Cardinality(WithOutcome(r, "Skipped-AlreadyExists"))
                /\ failed_count[r] = Cardinality(WithOutcome(r, "Failed"))
                /\ key \in DOMAIN store
                /\ store[key] = store_at_start[r][key]
                /\ idx[r] > i

C3_Witness ==
    \E r \in Runs :
        /\ ~cfg[r].force
        /\ Len(file_metadata[r]) >= 2
        /\ outcome[r][1] = "Skipped-AlreadyExists"
        /\ outcome[r][2] = "Uploaded"

(***************************************************************************)
(* C4: force on, not a dry run: no probe at all; every file the loop has   *)
(* handled got exactly one upload_file call (and at most one transfer),    *)
(* also when an object was already at its key, and its outcome is Uploaded *)
(* or Failed, never Skipped-AlreadyExists.                                 *)
(***************************************************************************)
C4_ForceOverwrite ==
    \A r \in Runs :
        (cfg[r].force /\ ~cfg[r].dry_run) =>
            /\ CallsOf(r, {"head_object"}) = {}
            /\ \A i \in Files(r) :
                   LET key == FileKey(r, i)
                   IN  /\ outcome[r][i] \in {"none", "Uploaded", "Failed"}
                       /\ Cardinality(CallsOn(r, {"upload_file"}, key)) <= 1
                       /\ Cardinality(CallsOn(r, {"s3.upload_file"}, key)) <= 1
                       /\ (outcome[r][i] # "none" \/ idx[r] > i) =>
                              /\ Cardinality(CallsOn(r, {"upload_file"}, key)) = 1
                              /\ outcome[r][i] \in {"Uploaded", "Failed"}

C4_Witness ==
    \E r \in Runs : \E i \in Files(r) :
        /\ cfg[r].force
        /\ FileKey(r, i) \in DOMAIN store_at_start[r]
        /\ outcome[r][i] = "Uploaded"
        /\ store[FileKey(r, i)] # store_at_start[r][FileKey(r, i)]

(***************************************************************************)
(* C5: a run that went through Summary exits non-zero iff some admitted    *)
(* file has outcome Failed, and the three counts are the numbers of files  *)
(* with each outcome (all skipped: exit 0; 3 files, 2 uploaded, 1 failed:  *)
(* exit 1 with counts 2, 1, 0).                                            *)
(***************************************************************************)
C5_ExitCodeIffFailed ==
    \A r \in Runs :
        ExitedAfterSummary(r) =>
            /\ (exit_code[r] # 0) <=> (WithOutcome(r, "Failed") # {})
            /\ exit_code[r] \in {0, 1}
            /\ uploaded_count[r] = Cardinality(WithOutcome(r, "Uploaded"))
            /\ skipped_count[r] = Cardinality(WithOutcome(r, "Skipped-AlreadyExists"))
            /\ failed_count[r] = Cardinality(WithOutcome(r, "Failed"))

C5_Witness ==
    \E r \in Runs :
        /\ ExitedAfterSummary(r)
        /\ Len(file_metadata[r]) = 3
        /\ uploaded_count[r] = 2 /\ failed_count[r] = 1 /\ skipped_count[r] = 0
        /\ exit_code[r] = 1

(***************************************************************************)
(* C6: an error while a file is processed in the upload loop (its probe,   *)
(* its compression, its transfer) gives that file the outcome Failed and   *)
(* does not end the run: no run that entered the loop ends by an uncaught  *)
(* exception, and it ends only after Marking and Summary.                  *)
(***************************************************************************)
C6_PerFileErrorsLocal ==
    \A r \in Runs :
        idx[r] >= 1 =>
            /\ term[r] # "uncaught"
            /\ pc[r] = "Exit" => UploadingDone(r)
            /\ \A i \in Files(r) :
                   (\E j \in CallsOn(r, {"head_object", "s3.upload_file"}, FileKey(r, i)) :
                        calls[r][j].result \notin {"200", "404", "ok"})
                       => outcome[r][i] = "Failed"

(***************************************************************************)
(* C7 as claimed: a failed marker write makes the exit code non-zero.      *)
(***************************************************************************)
C7_MarkerFailureExitsNonZero ==
    \A r \in Runs :
        (pc[r] = "Exit" /\ \E j \in MarkerCalls(r) : calls[r][j].result = "error")
            => exit_code[r] # 0

(***************************************************************************)
(* C7 amended: a failed marker write leaves the bucket without that write, *)
(* the run goes on with the remaining groups' markers and reaches Summary, *)
(* and the exit code does not depend on it: it is non-zero iff             *)
(* failed_count, the number of failed files, is positive.                  *)
(***************************************************************************)
C7_MarkerFailureReportedOnly ==
    \A r \in Runs : \A j \in MarkerCalls(r) :
        calls[r][j].result = "error" =>
            /\ term[r] # "uncaught"
            /\ gidx[r] > Cardinality({k \in MarkerCalls(r) : k <= j})
            /\ pc[r] \in {"Marking", "put_object", "Summary", "Exit"}
            /\ pc[r] \in {"Marking", "put_object"} => gidx[r] <= Cardinality(GroupKeys(r))
            /\ pc[r] \in {"Summary", "Exit"} =>
                   Cardinality(MarkerCalls(r)) = Cardinality(GroupKeys(r))
            /\ (calls[r][j].key \in DOMAIN store =>
                   store[calls[r][j].key].Body # calls[r][j].body)
            /\ pc[r] = "Exit" => (exit_code[r] # 0 <=> failed_count[r] > 0)

C7_Witness ==
    \E r \in Runs :
        /\ pc[r] = "Exit" /\ exit_code[r] = 0
        /\ Cardinality(MarkerCalls(r)) = 2
        /\ \E j, k \in MarkerCalls(r) :
               j < k /\ calls[r][j].result = "error" /\ calls[r][k].result = "ok"

(***************************************************************************)
(* C9: a dry run creates no client, issues no call, writes no temporary    *)
(* file, leaves the bucket as it was, never enters Uploading, and when it  *)
(* passed the run-date check it ends with status 0 (after PlanReview when  *)
(* files were admitted).                                                   *)
(***************************************************************************)
C9_DryRunNoEffect ==
    \A r \in Runs :
        (cfg[r].dry_run /\ pc[r] # "Idle") =>
            /\ s3_client[r] # "client"
            /\ calls[r] = <<>>
            /\ tmp = <<>>
            /\ store = store_at_start[r]
            /\ pc[r] \in {"Init", "Scanning", "Connect", "PlanReview", "Exit"}
            /\ \A i \in Files(r) : outcome[r][i] = "none"
            /\ (pc[r] = "Exit" /\ StrptimeYmd(cfg[r].run_date)) => exit_code[r] = 0
            /\ (pc[r] = "Exit" /\ file_metadata[r] # <<>>) =>
                   (term[r] = "return" /\ source_table_groups[r] # <<>>)

C9_Witness ==
    \E r \in Runs :
        /\ cfg[r].dry_run
        /\ pc[r] = "Exit" /\ exit_code[r] = 0
        /\ Len(file_metadata[r]) = 3
        /\ source_table_groups[r] # <<>>
        /\ DOMAIN store # {}

(***************************************************************************)
(* C10: a run date that is not a valid YYYY-MM-DD date ends the run        *)
(* non-zero at the run-date check, before the scan; a failed bucket check  *)
(* ends it with status 1; in both cases no probe, upload or marker write   *)
(* is issued.                                                              *)
(***************************************************************************)
C10_ConfigErrorsFatal ==
    \A r \in Runs :
        /\ (~IsYYYYMMDD(cfg[r].run_date) /\ pc[r] \notin {"Idle", "Init"}) =>
               /\ pc[r] = "Exit" /\ exit_code[r] # 0
               /\ file_metadata[r] = <<>>
               /\ calls[r] = <<>>
        /\ (\E j \in CallsOf(r, {"head_bucket"}) : calls[r][j].result # "ok") =>
               /\ pc[r] = "Exit" /\ exit_code[r] = 1
               /\ Len(calls[r]) = 1

(***************************************************************************)
(* C8: a run q ended with every admitted file Uploaded; a later run r of   *)
(* the same directory with the same client, run date and compression, and  *)
(* force off, issues no upload_file call and no transfer, gives no file an *)
(* outcome other than Skipped-AlreadyExists and leaves every data object   *)
(* as it found it; when no call of r fails, r ends with status 0 after     *)
(* Summary with every file Skipped-AlreadyExists, and each marker it       *)
(* writes has the file_count and status of q's marker at the same key.     *)
(***************************************************************************)
\* The keys of the data objects (the objects that are not markers) of a bucket.
DataObjects(bucket) == { k \in DOMAIN bucket : "Metadata" \in DOMAIN bucket[k] }

IsRerunOf(r, q) ==
    /\ r # q
    /\ pc[q] = "Exit" /\ file_metadata[q] # <<>>
    /\ \A i \in Files(q) : outcome[q][i] = "Uploaded"
    /\ pc[r] # "Idle"
    /\ \A i \in Files(q) :          \* r began when q's objects were in the bucket
           \E k \in DataObjects(store_at_start[r]) :
               store_at_start[r][k].Metadata.original_filename
                   = Join(file_metadata[q][i].local_path.name)
    /\ ~cfg[r].force /\ ~cfg[r].dry_run
    /\ cfg[r].source_dir = cfg[q].source_dir
    /\ cfg[r].client = cfg[q].client
    /\ cfg[r].bucket = cfg[q].bucket
    /\ cfg[r].run_date = cfg[q].run_date
    /\ cfg[r].no_compress = cfg[q].no_compress

NoCallFailed(r) ==
    \A j \in 1..Len(calls[r]) :
        calls[r][j].result
            \in (IF calls[r][j].op = "head_object" THEN {"200", "404"} ELSE {"ok", "called"})

C8_RerunIdempotent ==
    \A r, q \in Runs :
        IsRerunOf(r, q) =>
            /\ CallsOf(r, {"upload_file", "s3.upload_file"}) = {}
            /\ \A i \in Files(r) : outcome[r][i] \in {"none", "Skipped-AlreadyExists"}
            /\ DataObjects(store) = DataObjects(store_at_start[r])
            /\ \A k \in DataObjects(store) : store[k] = store_at_start[r][k]
            /\ \A i \in Files(q) : FileKey(q, i) \in DataObjects(store)
            /\ (NoCallFailed(r) /\ pc[r] = "Exit") =>
                   /\ ExitedAfterSummary(r)
                   /\ exit_code[r] = 0
                   /\ file_metadata[r] = file_metadata[q]
                   /\ \A i \in Files(r) : outcome[r][i] = "Skipped-AlreadyExists"
                   /\ \A j \in MarkerCalls(q) :
                          \E k \in MarkerCalls(r) :
                              /\ calls[r][k].key = calls[q][j].key
                              /\ calls[r][k].body.file_count = calls[q][j].body.file_count
                              /\ calls[r][k].body.status = calls[q][j].body.status
                              /\ store[calls[r][k].key].Body = calls[r][k].body
                   /\ Cardinality(MarkerCalls(r)) = Cardinality(MarkerCalls(q))

C8_Witness ==
    \E r, q \in Runs :
        /\ IsRerunOf(r, q)
        /\ NoCallFailed(r) /\ pc[r] = "Exit"
        /\ Len(file_metadata[r]) = 3
        /\ Cardinality(MarkerCalls(r)) = 2
        /\ \E j \in MarkerCalls(q) : calls[q][j].result = "ok"

(***************************************************************************)
(* C11: once upload_file has returned for a file (with True or with False, *)
(* whatever step failed), the temporary compressed file it created is no   *)
(* longer in the temporary directory.                                      *)
(***************************************************************************)
\* upload_file was called for file i of run r and has returned.
UploadFileReturned(r, i) ==
    /\ CallsOn(r, {"upload_file"}, FileKey(r, i)) # {}
    /\ ~(pc[r] \in {"gzip_write", "extra_args", "transfer", "cleanup", "except"} /\ idx[r] = i)

C11_TempArtifactsRemoved ==
    \A r \in Runs : \A i \in Files(r) :
        UploadFileReturned(r, i) =>
            compressed_path(file_metadata[r][i].local_path) \notin DOMAIN tmp

(***************************************************************************)
(* C12: the scan looks at every globbed file; it admits a file iff its     *)
(* name parses and its content validates, and reports each other file as   *)
(* one rejection; a rejected file is not probed, not uploaded, leaves no   *)
(* object in the bucket and is not counted in any marker's file_count.     *)
(***************************************************************************)
\* The globbed files of run r's source directory.
Globbed(r) == fs[cfg[r].source_dir]

WellFormed(f) == parse_filename(f.name).ok /\ validate_jsonl(f.lines).is_valid

\* The run has left scan_directory.
Scanned(r) == pc[r] \notin {"Idle", "Init", "Scanning"}

\* The positions in the listing of the files that run r admitted.
AdmittedAt(r) ==
    { i \in 1..Len(Globbed(r)) :
        \E k \in Files(r) : file_metadata[r][k].local_path.name = Globbed(r)[i].name }

\* The key a file would be uploaded to, for a file whose name parses.
WouldBeKey(r, f) ==
    generate_s3_path(cfg[r].client, Join(parse_filename(f.name).source),
                     Join(parse_filename(f.name).table), Join(cfg[r].run_date),
                     Join(f.name), compress(r))

C12_RejectionIsolation ==
    \A r \in Runs :
        (Scanned(r) /\ StrptimeYmd(cfg[r].run_date)) =>
            LET n == Len(Globbed(r))
                admitted == AdmittedAt(r)
                \* per globbed file: is it well formed, the key it would be
                \* uploaded to if it is not, the group its name puts it in
                files == { LET f == Globbed(r)[i]
                               p == parse_filename(f.name)
                               wf == p.ok /\ validate_jsonl(f.lines).is_valid
                           IN  [i |-> i, wf |-> wf,
                                key |-> IF p.ok /\ ~wf THEN WouldBeKey(r, f) ELSE "",
                                group |-> IF wf THEN <<p.source, p.table>> ELSE <<>>] : i \in 1..n }
                \* the marker key of each well-formed file
                markers == { <<x.i, marker_path_of(cfg[r], x.group)>> :
                                x \in { y \in files : y.wf } }
                keys == { FileKey(r, k) : k \in Files(r) }
                written == DataObjects(store) \ DataObjects(store_at_start[r])
            IN  /\ Len(scan_console[r]) = n
                /\ \A x \in files :
                       LET f == Globbed(r)[x.i]
                       IN  /\ scan_console[r][x.i].name = f.name
                           /\ (x.i \in admitted) <=> x.wf
                           /\ scan_console[r][x.i].admitted <=> x.wf
                           /\ ~x.wf =>
                                  /\ x.key # "" => CallsOn(r, FileOps, x.key) = {}
                                  /\ \A k \in written :
                                         store[k].Metadata.original_filename # Join(f.name)
                /\ Len(file_metadata[r]) = Cardinality(admitted)
                /\ Cardinality({ i \in 1..n : ~scan_console[r][i].admitted })
                       = n - Len(file_metadata[r])
                /\ \A j \in CallsOf(r, FileOps) : calls[r][j].key \in keys
                /\ \A j \in MarkerCalls(r) :
                       calls[r][j].body.file_count =
                           Cardinality({ m \in markers : m[2] = calls[r][j].key })

\* A directory with a rejected first file and a well-formed second file of the
\* same (source, table): the second is admitted, uploaded and marked alone.
C12_Witness ==
    \E r \in Runs :
        /\ ExitedAfterSummary(r)
        /\ Len(Globbed(r)) = 2 /\ Len(file_metadata[r]) = 1
        /\ ~scan_console[r][1].admitted /\ scan_console[r][2].admitted
        /\ parse_filename(Globbed(r)[1].name).ok
        /\ <<parse_filename(Globbed(r)[1].name).source,
              parse_filename(Globbed(r)[1].name).table>> = GroupOf(r, 1)
        /\ outcome[r][1] = "Uploaded"
        /\ \E j \in MarkerCalls(r) : calls[r][j].body.file_count = 1

(***************************************************************************)
(* C13: where a run has written a group's _SUCCESS marker, every admitted  *)
(* file of that group has outcome Uploaded or Skipped-AlreadyExists in     *)
(* that run.                                                               *)
(***************************************************************************)
C13_MarkerOnlyAfterSuccess ==
    \A r \in Runs : \A j \in MarkerCalls(r) :
        calls[r][j].result = "ok" =>
            \A i \in Files(r) :
                marker_path_of(cfg[r], GroupOf(r, i)) = calls[r][j].key =>
                    outcome[r][i] \in {"Uploaded", "Skipped-AlreadyExists"}

(***************************************************************************)
(* C14: a run whose scan admits no file (empty directory, or every file    *)
(* rejected) ends with status 0 right after the scan: no client, no bucket *)
(* check, no probe, no upload, no marker write, bucket and temporary       *)
(* directory untouched.                                                    *)
(***************************************************************************)
C14_EmptyExit ==
    \A r \in Runs :
        (/\ Scanned(r)
         /\ StrptimeYmd(cfg[r].run_date)
         /\ \A i \in 1..Len(Globbed(r)) : ~WellFormed(Globbed(r)[i])) =>
            /\ file_metadata[r] = <<>>
            /\ pc[r] = "Exit" /\ exit_code[r] = 0 /\ term[r] = "sys.exit"
            /\ s3_client[r] = "unset"
            /\ calls[r] = <<>>
            /\ store = store_at_start[r]
            /\ tmp = <<>>

C14_Witness ==
    \E r \in Runs :
        /\ ~cfg[r].dry_run
        /\ Scanned(r)
        /\ Len(Globbed(r)) = 1 /\ file_metadata[r] = <<>>
        /\ Len(scan_console[r]) = 1
        /\ exit_code[r] = 0

(***************************************************************************)
(* C15: for a file whose first malformed non-blank line is line k,         *)
(* validate_jsonl returns invalid, an error that reports line k, and a     *)
(* record count of zero, whatever precedes or follows line k; a file of    *)
(* blank lines only is invalid with "File is empty" and a count of zero.   *)
(***************************************************************************)
\* The 1-based position of the first malformed line, 0 when there is none.
FirstBad(lines) ==
    IF \E k \in 1..Len(lines) : lines[k] = "bad"
    THEN CHOOSE k \in 1..Len(lines) :
             lines[k] = "bad" /\ \A j \in 1..(k - 1) : lines[j] # "bad"
    ELSE 0

OnlyBlank(lines) == \A k \in 1..Len(lines) : lines[k] = "blank"

C15_ValidatorFailFast ==
    \A r \in Runs : \A i \in 1..Len(scan_console[r]) :
        LET lines == Globbed(r)[i].lines
            k == FirstBad(lines)
        IN  scan_console[r][i].checked # <<>> =>
                /\ k > 0 =>
                       /\ scan_console[r][i].checked[1] =
                              [is_valid |-> FALSE,
                               error_msg |-> <<"Invalid JSON at line", k>>,
                               line_count |-> 0]
                       /\ scan_console[r][i].checked[1] = validate_jsonl(SubSeq(lines, 1, k))
                /\ (k = 0 /\ OnlyBlank(lines)) =>
                       scan_console[r][i].checked[1] =
                           [is_valid |-> FALSE, error_msg |-> <<"File is empty">>,
                            line_count |-> 0]

(***************************************************************************)
(* C16: a file name with the extension is split at its first "_" into      *)
(* (source_prefix, table); the source is the alias of a mapped prefix and   *)
(* the lower-cased prefix otherwise, and source and table are lower-case;   *)
(* a name without "_" fails with an error that names the file and yields    *)
(* no (source, table).                                                      *)
(***************************************************************************)
UpperCase ==
    <<"A", "B", "C", "D", "E", "F", "G", "H", "I", "J", "K", "L", "M",
      "N", "O", "P", "Q", "R", "S", "T", "U", "V", "W", "X", "Y", "Z">>

LowerCase ==
    <<"a", "b", "c", "d", "e", "f", "g", "h", "i", "j", "k", "l", "m",
      "n", "o", "p", "q", "r", "s", "t", "u", "v", "w", "x", "y", "z">>

\* str.lower, character by character.
Lower(cs) ==
    [i \in 1..Len(cs) |->
        IF \E u \in 1..26 : UpperCase[u] = cs[i]
        THEN LowerCase[CHOOSE u \in 1..26 : UpperCase[u] = cs[i]]
        ELSE cs[i]]

IsLowerCase(cs) == \A i \in 1..Len(cs) : \A u \in 1..26 : cs[i] # UpperCase[u]

\* The name without its extension, for a name that ends with the extension.
Stem(name) == SubSeq(name, 1, Len(name) - Len(Chr_jsonl))

HasDelimiter(cs) == \E i \in 1..Len(cs) : cs[i] = "_"

C16_NameParsing ==
    \A r \in Runs : \A i \in 1..Len(scan_console[r]) :
        LET name == scan_console[r][i].name
            parts == Split1(Stem(name), "_")
        IN  IF HasDelimiter(Stem(name))
            THEN /\ scan_console[r][i].parsed # <<>>
                 /\ scan_console[r][i].parsed[1] =
                        (IF parts[1] \in source_mapping_keys
                         THEN source_mapping(parts[1]) ELSE Lower(parts[1]))
                 /\ scan_console[r][i].parsed[2] = parts[2]
                 /\ IsLowerCase(scan_console[r][i].parsed[1])
                 /\ IsLowerCase(scan_console[r][i].parsed[2])
            ELSE /\ scan_console[r][i].parsed = <<>>
                 /\ scan_console[r][i].text =
                        <<"Invalid filename format: " \o Join(name)
                              \o ". Expected format: source_table.jsonl">>

(***************************************************************************)
(* C17: in a run that is not a dry run and has reached Marking, a marker   *)
(* write is attempted for each group in turn, whatever the outcomes of the *)
(* group's files, also when all of them Failed; its file_count is the      *)
(* number of files of the group: Uploaded plus Skipped plus Failed.        *)
(***************************************************************************)
\* The files of group gk of run r that have outcome o.
InGroupWith(r, gk, o) == FilesOf(r, gk) \cap WithOutcome(r, o)

C17_MarkerRegardlessOfOutcome ==
    \A r \in Runs :
        UploadingDone(r) =>
            /\ pc[r] \in {"Marking", "put_object", "Summary", "Exit"}
            /\ Len(source_table_groups[r]) = Cardinality(GroupKeys(r))
            /\ pc[r] \in {"Marking", "put_object"} => gidx[r] <= Len(source_table_groups[r])
            /\ pc[r] \in {"Summary", "Exit"} => gidx[r] = Len(source_table_groups[r]) + 1
            /\ Cardinality(MarkerCalls(r)) = gidx[r] - 1
            /\ \A g \in 1..(gidx[r] - 1) :
                   LET gk == source_table_groups[r][g].key
                       marker == marker_path_of(cfg[r], gk)
                   IN  \E j \in MarkerCalls(r) :
                           /\ calls[r][j].key = marker
                           /\ calls[r][j].body.file_count =
                                  Cardinality(InGroupWith(r, gk, "Uploaded"))
                                  + Cardinality(InGroupWith(r, gk, "Skipped-AlreadyExists"))
                                  + Cardinality(InGroupWith(r, gk, "Failed"))

\* A group of two files that both Failed got its marker, with file_count 2.
C17_Witness ==
    \E r \in Runs : \E gk \in GroupKeys(r) :
        /\ ExitedAfterSummary(r)
        /\ Cardinality(FilesOf(r, gk)) = 2
        /\ FilesOf(r, gk) \subseteq WithOutcome(r, "Failed")
        /\ \E j \in MarkerCalls(r) :
               /\ calls[r][j].key = marker_path_of(cfg[r], gk)
               /\ calls[r][j].result = "ok"
               /\ calls[r][j].body.file_count = 2
               /\ store[calls[r][j].key].Body = calls[r][j].body

(***************************************************************************)
(* C18: the probe and the upload of one object are two steps.  When two    *)
(* concurrent runs without force have both probed the same absent key and  *)
(* both got "not found", neither skips its file: each goes on to upload    *)
(* whatever the other has written meanwhile, and a transfer that succeeds  *)
(* replaces the object that is at the key.  The race itself, both runs     *)
(* reporting Uploaded for one key, is the witness.                         *)
(***************************************************************************)
Probed404(r, i) ==
    \E j \in CallsOn(r, {"head_object"}, FileKey(r, i)) : calls[r][j].result = "404"

\* File i of run r and file k of run q go to the same key, which both probes
\* reported absent.
Raced(r, i, q, k) ==
    /\ r # q
    /\ ~cfg[r].force /\ ~cfg[q].force
    /\ FileKey(r, i) = FileKey(q, k)
    /\ Probed404(r, i) /\ Probed404(q, k)

\* The transfers of run r to the key of its file i that succeeded.
OkTransfers(r, i) ==
    { j \in CallsOn(r, {"s3.upload_file"}, FileKey(r, i)) : calls[r][j].result = "ok" }

\* A step in which run r's transfer succeeds leaves at the key what r
\* transferred, stamped with the time r read before the call, whether or not
\* an object was there.
TransferOverwrites ==
    \A r \in Runs :
        (/\ pc[r] = "transfer" /\ pc'[r] = "cleanup") =>
            LET c == calls'[r][Len(calls'[r])]
            IN  /\ c.op = "s3.upload_file" /\ c.result = "ok"
                /\ c.key \in DOMAIN store'
                /\ store'[c.key].Body = c.body
                /\ store'[c.key].Metadata.uploaded_at = utcnow[r]
                /\ utcnow[r] <= clock

RaceInv ==
    \A r, q \in Runs : \A i \in Files(r) : \A k \in Files(q) :
        Raced(r, i, q, k) =>
            /\ outcome[r][i] \in {"none", "Uploaded", "Failed"}
            /\ skipped_count[r] = Cardinality(WithOutcome(r, "Skipped-AlreadyExists"))
            /\ outcome[r][i] = "Uploaded" =>
                   /\ Cardinality(OkTransfers(r, i)) = 1
                   /\ FileKey(r, i) \in DOMAIN store
            /\ (outcome[r][i] = "Uploaded" /\ outcome[q][k] = "Uploaded") =>
                   \E j \in OkTransfers(r, i) \cup OkTransfers(q, k) :
                       \E w \in {r, q} :
                           /\ j \in 1..Len(calls[w])
                           /\ calls[w][j].op = "s3.upload_file"
                           /\ calls[w][j].key = FileKey(r, i)
                           /\ store[FileKey(r, i)].Body = calls[w][j].body

C18_ProbeUploadNotAtomic == []RaceInv /\ [][TransferOverwrites]_vars

\* Both runs probed the key while it was absent, both uploaded to it and both
\* report Uploaded; the object at the key is the one of run q, the content
\* that run r uploaded has been replaced.
C18_Witness ==
    \E r, q \in Runs : \E i \in Files(r) : \E k \in Files(q) :
        /\ Raced(r, i, q, k)
        /\ FileKey(r, i) \notin DOMAIN store_at_start[r]
        /\ outcome[r][i] = "Uploaded" /\ outcome[q][k] = "Uploaded"
        /\ uploaded_count[r] = 1 /\ uploaded_count[q] = 1
        /\ \E j \in OkTransfers(r, i) : \E m \in OkTransfers(q, k) :
               /\ calls[r][j].body # calls[q][m].body
               /\ store[FileKey(r, i)].Body = calls[q][m].body
        /\ pc[r] = "Exit" /\ pc[q] = "Exit"
        /\ exit_code[r] = 0 /\ exit_code[q] = 0

(***************************************************************************)
(* C19: within one run an admitted file gets at most one probe, at most    *)
(* one upload_file call and at most one transfer; an outcome, once given,  *)
(* is never changed; and when the run is at Summary or beyond, every file  *)
(* has exactly one of the three outcomes and uploaded + skipped + failed   *)
(* is the number of admitted files.                                        *)
(***************************************************************************)
AtMostOnce ==
    \A r \in Runs : \A i \in Files(r) :
        /\ Cardinality(CallsOn(r, {"head_object"}, FileKey(r, i))) <= 1
        /\ Cardinality(CallsOn(r, {"upload_file"}, FileKey(r, i))) <= 1
        /\ Cardinality(CallsOn(r, {"s3.upload_file"}, FileKey(r, i))) <= 1
        /\ outcome[r][i] \in Outcomes \cup {"none"}
        /\ outcome[r][i] = "Skipped-AlreadyExists" =>
               CallsOn(r, {"upload_file", "s3.upload_file"}, FileKey(r, i)) = {}
        /\ outcome[r][i] # "none" => idx[r] > i
        /\ idx[r] > i => outcome[r][i] # "none"

CountsAtSummary ==
    \A r \in Runs :
        (UploadingDone(r) /\ pc[r] \in {"Summary", "Exit"}) =>
            /\ \A i \in Files(r) : outcome[r][i] \in Outcomes
            /\ uploaded_count[r] + skipped_count[r] + failed_count[r] = Len(file_metadata[r])
            /\ uploaded_count[r] = Cardinality(WithOutcome(r, "Uploaded"))
            /\ skipped_count[r] = Cardinality(WithOutcome(r, "Skipped-AlreadyExists"))
            /\ failed_count[r] = Cardinality(WithOutcome(r, "Failed"))

\* No step changes an outcome that has been given, and the loop never goes back.
OutcomeFinal ==
    \A r \in Runs :
        /\ idx[r] >= 1 => idx'[r] >= idx[r]
        /\ \A i \in Files(r) :
               (outcome[r][i] # "none" /\ Len(outcome'[r]) >= i) => outcome'[r][i] = outcome[r][i]

C19_OneAttemptOneOutcome == [](AtMostOnce /\ CountsAtSummary) /\ [][OutcomeFinal]_vars

C19_Witness ==
    \E r \in Runs :
        /\ pc[r] = "Summary"
        /\ Len(file_metadata[r]) = 3
        /\ uploaded_count[r] = 1 /\ skipped_count[r] = 1 /\ failed_count[r] = 1
        /\ \A i \in Files(r) :
               outcome[r][i] # "Skipped-AlreadyExists" =>
                   Cardinality(CallsOn(r, {"head_object"}, FileKey(r, i))) = 1

(***************************************************************************)
(* C20: two concurrent runs that work on different source directories      *)
(* (distinct local paths) do not disturb each other's upload_file calls:   *)
(* every transfer carries the content of the run's own file, the temporary *)
(* compressed file of an upload in progress is there with the run's own    *)
(* content, and, no call of the store or the disk failing of itself, no    *)
(* file is Failed.                                                         *)
(***************************************************************************)
\* What upload_file of run r hands to the transfer for its file i.
OwnContent(r, i) ==
    IF compress(r)
    THEN Gzip(ReadFile(file_metadata[r][i].local_path))
    ELSE ReadFile(file_metadata[r][i].local_path)

\* upload_file of run r for file i is between compress_file and its return.
UploadInProgress(r, i) == pc[r] \in {"extra_args", "transfer", "cleanup"} /\ idx[r] = i

C20_UploadsIndependent ==
    \A r, q \in Runs :
        (r # q /\ cfg[r].source_dir # cfg[q].source_dir /\ pc[q] # "Idle") =>
            \A i \in Files(r) :
                /\ \A j \in CallsOn(r, {"s3.upload_file"}, FileKey(r, i)) :
                       calls[r][j].body # <<>> => calls[r][j].body = OwnContent(r, i)
                /\ (UploadInProgress(r, i) /\ compress(r)) =>
                       /\ compressed_path(file_metadata[r][i].local_path) \in DOMAIN tmp
                       /\ Bytes(tmp[compressed_path(file_metadata[r][i].local_path)])
                              = OwnContent(r, i)
                /\ outcome[r][i] # "Failed"

(***************************************************************************)
(* C21: the downstream asset promotes (counts in files_validated) a data   *)
(* object only if the listing it read holds a _SUCCESS marker under the    *)
(* object's partition prefix; objects of a partition without a marker are  *)
(* not promoted.  Stated for a materialization that read the bucket as the *)
(* finished invocations left it.                                           *)
(***************************************************************************)
RECURSIVE LastSlash(_, _)
LastSlash(key, i) ==
    IF i = 0 THEN 0
    ELSE IF SubSeq(key, i, i) = "/" THEN i ELSE LastSlash(key, i - 1)

\* The partition prefix of a key: the key up to its last "/".
PartitionOf(key) == SubSeq(key, 1, LastSlash(key, Len(key)))

\* The listing holds the marker of the partition of the key.
MarkerPresent(listing, key) == (PartitionOf(key) \o "_SUCCESS") \in listing

\* The asset's latest materialization read the bucket as it is now, and no
\* invocation of the tool is under way.
MaterializedAtRest ==
    /\ bronze.materialized
    /\ \A r \in Runs : pc[r] \in {"Idle", "Exit"}
    /\ bronze.raw_files = list_objects(Objects(bronze.raw_bucket),
                                       "clients/" \o bronze.client_name \o "/")

C21_MarkerIsPromotionTrigger ==
    MaterializedAtRest =>
        /\ \A key \in bronze.promoted : MarkerPresent(bronze.raw_files, key)
        /\ bronze.files_validated =
               Cardinality({ key \in bronze.raw_files :
                               /\ ~endswith(key, "_SUCCESS")
                               /\ MarkerPresent(bronze.raw_files, key) })

(***************************************************************************)
(* C22: within one run, distinct admitted files have distinct data object  *)
(* keys, the key of a file lies under the partition prefix of the marker   *)
(* key of the file's own (source, table) group, and no data object key is  *)
(* a marker key; so an object the run uploaded holds its own file's        *)
(* content and the object at the key of a marker the run wrote is a        *)
(* marker, also after a rerun on the same directory.                       *)
(***************************************************************************)
C22_KeySeparation ==
    \A r \in Runs :
        LET keys == { <<i, FileKey(r, i)>> : i \in Files(r) }
            markers == { <<gk, marker_path_of(cfg[r], gk)>> : gk \in GroupKeys(r) }
        IN  /\ \A x \in keys : \A y \in keys : x[2] = y[2] => x[1] = y[1]
            /\ \A x \in keys :
                   /\ \A m \in markers :
                          /\ x[2] # m[2]
                          /\ m[1] = GroupOf(r, x[1]) => PartitionOf(x[2]) = PartitionOf(m[2])
                   /\ \E m \in markers : m[1] = GroupOf(r, x[1])
                   /\ outcome[r][x[1]] = "Uploaded" =>
                          /\ x[2] \in DOMAIN store
                          /\ store[x[2]].Body = OwnContent(r, x[1])
            /\ \A j \in MarkerCalls(r) :
                   calls[r][j].result = "ok" =>
                       /\ calls[r][j].key \in DOMAIN store
                       /\ "Metadata" \notin DOMAIN store[calls[r][j].key]
                       /\ store[calls[r][j].key].ContentType = "application/json"
                       /\ store[calls[r][j].key].Body.status = "complete"
                       /\ store[calls[r][j].key].Body.file_count = calls[r][j].body.file_count

\* A finished run of three files, two of them of one (source, table) group,
\* all Uploaded and both markers written: three objects, two markers.
C22_Witness ==
    \E r \in Runs :
        /\ ExitedAfterSummary(r)
        /\ Len(file_metadata[r]) = 3
        /\ Cardinality(GroupKeys(r)) = 2
        /\ \A i \in Files(r) : outcome[r][i] = "Uploaded"
        /\ Cardinality({ FileKey(r, i) : i \in Files(r) }) = 3
        /\ \A j \in MarkerCalls(r) : calls[r][j].result = "ok"
        /\ Cardinality(DOMAIN store) >= 5

====
